----------------------------- MODULE MCProtector -----------------------------
(* Three documents: the shipped thermal_kernel_config.xml with its            *)
(* temperatures in degrees; one with two control nodes, a type listed twice,  *)
(* an action without a class and a zone without items; one whose intervals    *)
(* have a common divisor below a second.                                      *)
EXTENDS Protector

Limit(name, value) == [name |-> name, value |-> value]
Item(level, up, clr, actions) ==
    [level |-> level, threshold |-> up, thresholdClr |-> clr, actions |-> actions]
Zone(type, interval, desc, items) ==
    [type |-> type, interval |-> interval, desc |-> desc, items |-> items]

Soc == Zone("soc", 2000, FALSE,
    <<Item(1, 35, 32, <<Limit("current", 35), Limit("cpu", 998)>>),
      Item(2, 40, 37, <<Limit("current", 15), Limit("cpu", 1998)>>),
      Item(3, 45, 42, <<Limit("current", 10), Limit("cpu", 2998)>>)>>)
Gpu == Zone("gpu", 4000, FALSE,
    <<Item(1, 35, 32, <<Limit("cpu", 998)>>),
      Item(2, 40, 37, <<Limit("cpu", 778)>>)>>)
Battery == Zone("battery", 6000, TRUE,
    <<Item(1, -50, -48, <<Limit("cpu", 998)>>),
      Item(2, -53, -52, <<Limit("cpu", 778)>>)>>)

ShippedDoc == << <<Soc, Gpu, Battery>> >>
OddDoc == << <<Soc>>,
             <<Zone("gpu", 2000, TRUE, <<Item(1, 30, 34, <<Limit("fan", 7), Limit("cpu", 5)>>)>>),
               Gpu, Zone("battery", 4000, FALSE, << >>)>> >>
FastDoc == << <<Zone("soc", 500, FALSE, Soc.items)>> >>

MCDocs == [shipped |-> ShippedDoc, odd |-> OddDoc, fast |-> FastDoc]
MCTemps == {-54, -49, 33, 36, 41, 46}
=============================================================================
