---------------------------- MODULE MCFleetPlan ----------------------------
EXTENDS FleetPlan

CONSTANTS upper3, wrong, bad, serial

MCType == [m \in {"USW", "UGW", "UXG"} |->
             CASE m = "USW" -> "usw" [] m = "UGW" -> "ugw" [] m = "UXG" -> "uxg"]
MCAddresses == 0 .. 7
MCSpellings == MCAddresses \cup {upper3, wrong}
MCCanonical == [s \in MCSpellings |->
                  CASE s = upper3 -> 3 [] s = wrong -> None [] OTHER -> s]
MCNormalized == [m \in {"USW", "UGW", "UXG", "NEW"} |-> m]

Want(model, mac, ser, name) == [model |-> model, mac |-> mac, serial |-> ser, name |-> name]

\* Nothing given; one address in two spellings; one no device may have; a serial
\* and a name that an address of its own derives; an unknown model; a bad name.
MCWanted == {
  Want("USW", None, None, None),
  Want("UGW", 3, None, None),
  Want("UXG", upper3, serial, None),
  Want("USW", 0, None, None),
  Want("USW", None, <<"EMU", 2>>, None),
  Want("UXG", None, None, <<"emu", "USW", 3>>),
  Want("NEW", None, None, None),
  Want("USW", None, None, bad)}

MCRuntimeFiles == {None, Broken, {"UGW"}, {"UGW", "UXG"}}

Listed(model, mac, ip, type) == [model |-> model, mac |-> mac, ip |-> ip, type |-> type]

MCSingle == Listed("UGW", 1, 0, None)

MCLists == {
  <<>>,
  [k \in 1 .. 3 |-> Listed("USW", None, None, None)],
  [k \in 1 .. 4 |-> Listed("USW", None, None, None)],
  <<Listed("UGW", 3, None, None), Listed("USW", upper3, 0, None)>>,
  <<Listed("UGW", 0, None, None), Listed("USW", None, 0, None)>>,
  <<Listed("UGW", wrong, None, "usw"), Listed("UXG", 2, None, None)>>,
  <<Listed("USW", 2, 0, "usw")>>,
  <<Listed("NEW", None, 0, None), Listed("USW", 2, 0, "uap")>>}
=============================================================================
