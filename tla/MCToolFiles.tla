---------------------------- MODULE MCToolFiles ----------------------------
(* Three runs of the tools on an executable, an object and a text file. *)
EXTENDS ToolFiles

Exec == [kind |-> "exec", sections |-> {".text", ".symtab", ".comment", ".debug_info"}, linkage |-> TRUE, osabi |-> 0]
Rel == [kind |-> "rel", sections |-> {".text", ".data", ".symtab", ".rela.text"}, linkage |-> TRUE, osabi |-> 0]
Bare == [kind |-> "rel", sections |-> {".text", ".debug_info"}, linkage |-> FALSE, osabi |-> 0]
Text == [kind |-> "text", sections |-> {}]
Strip(inputs, out, strip, dates) ==
  [tool |-> "strip", files |-> inputs, out |-> out, opts |-> [strip |-> strip], dates |-> dates]
Objcopy(in, out, only, remove, strip, binary) ==
  [tool |-> "objcopy", files |-> <<in>>, out |-> out, dates |-> FALSE,
   opts |-> [only |-> only, remove |-> remove, strip |-> strip, binary |-> binary]]
Elfedit(inputs, inputType, osabi) ==
  [tool |-> "elfedit", files |-> inputs, out |-> "", dates |-> FALSE, opts |-> [inputType |-> inputType, osabi |-> osabi]]
MCCommands ==
  {Strip(<<"x">>, "", {"all"}, TRUE), Strip(<<"x", "y">>, "", {"debug"}, FALSE), Strip(<<"x">>, "y", {"unneeded"}, TRUE),
   Objcopy("x", "x", {}, {".data"}, {}, FALSE), Objcopy("x", "y", {}, {".debug_info"}, {"unneeded"}, FALSE),
   Objcopy("x", "y", {".text"}, {}, {}, TRUE), Objcopy("x", "y", {".text"}, {".comment"}, {}, FALSE),
   Elfedit(<<"x", "y">>, "rel", 3)}
MCDisks == {[x |-> Exec, y |-> Text], [x |-> Rel], [x |-> Bare, y |-> Exec]}
=============================================================================
