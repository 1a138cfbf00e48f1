---------------------------- MODULE ArchiveClosure ---------------------------
(***************************************************************************)
(* What archive resolution in oxide-ld promises, whatever order it looks   *)
(* at the members in: a member is pulled only while it has a name that is  *)
(* still wanted, it is pulled once, and the search is over only when no    *)
(* member that is left has a wanted name.                                  *)
(***************************************************************************)
EXTENDS Naturals, Sequences

CONSTANTS Objects,     \* object files
          SymbolsOf,   \* the names in each one's symbol table
          RefsOf       \* the names each one's relocations refer to

VARIABLES members,     \* the members of all archives, in command-line order
          pulled,      \* the positions of those in the link
          wanted,      \* the names that are referenced and not defined
          phase        \* "loading", "pulling" or "closed"

vars == <<members, pulled, wanted, phase>>

Init ==
  /\ members = <<>> /\ pulled = {} /\ wanted = {}
  /\ phase = "loading"

Provides(i) == SymbolsOf[members[i]] \cap wanted # {}

\* The command line is read: objects are merged, archives only noted.
Load ==
  /\ phase = "loading"
  /\ members' \in Seq(Objects)
  /\ phase' \in {"loading", "pulling"}
  /\ UNCHANGED pulled

\* A merged member settles names that were wanted and wants at most those it
\* refers to.
Pull(i) ==
  /\ phase = "pulling"
  /\ i \notin pulled /\ Provides(i)
  /\ pulled' = pulled \cup {i}
  /\ wanted' \subseteq wanted \cup RefsOf[members[i]]
  /\ UNCHANGED <<members, phase>>

Close ==
  /\ phase = "pulling"
  /\ \A i \in DOMAIN members : i \in pulled \/ ~Provides(i)
  /\ phase' = "closed"
  /\ UNCHANGED <<members, pulled, wanted>>

\* Symbols of the linker's own settle some of the names that are left.
Settle ==
  /\ phase = "closed"
  /\ wanted' \subseteq wanted
  /\ UNCHANGED <<members, pulled, phase>>

Next ==
  \/ Load \/ Close \/ Settle
  \/ \E i \in DOMAIN members : Pull(i)

Spec == Init /\ [][Next]_vars
=============================================================================
