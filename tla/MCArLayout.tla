----------------------------- MODULE MCArLayout -----------------------------
(* Up to three members with names around the 16-byte field, odd and empty   *)
(* members, symbols of odd and even length defined in several members, and  *)
(* members, long names and symbols that together reach the sizes that are   *)
(* too long for the size field.                                             *)
EXTENDS ArLayout, TLC, SequencesExt, FiniteSetsExt
CONSTANTS short, fits, long, other, f, g, h
MCNameLen == short :> 3 @@ fits :> 15 @@ long :> 16 @@ other :> 23
MCSymLen == f :> 1 @@ g :> 2 @@ h :> 40
MCBlobLen == [S \in SUBSET {f, g, h} |-> MapThenSumSet(LAMBDA s : MCSymLen[s] + 1, S)]
MCOverlong == {60, 70}
MCMembers == [name : {short, fits, long}, size : {0, 3},
              defs : {{}, {f}}] \cup
             [name : {other}, size : {4}, defs : {{g}, {f, g}}] \cup
             [name : {fits}, size : {4, 71}, defs : {{h}}] \cup
             [name : {short}, size : {65}, defs : {{}}]
MCArchives == UNION {[1..n -> MCMembers] : n \in 0..3}
=============================================================================
