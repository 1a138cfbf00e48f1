-------------------------- MODULE LinkImageProofs ---------------------------
(***************************************************************************)
(* Proofs about the image of a link, in two parts.                         *)
(*                                                                         *)
(* The first is about LinkLayout, for any images.  The inductive invariant *)
(* says that addresses grow in the order of the three loops, and that the  *)
(* sections emit has still to write start where the output ends or after   *)
(* it, so padding is always enough.                                        *)
(*                                                                         *)
(* The second is about LinkImage, for any links: an image of it is laid    *)
(* out as LinkLayout says, so what is proved of LayoutSpec holds of it,    *)
(* and what is written between the two passes agrees with the addresses.   *)
(***************************************************************************)
EXTENDS LinkImage, FiniteSetTheorems, WellFoundedInduction, TLAPS

\* The sections the loops have passed.
Reached ==
  {i \in Ids : \/ Class(i) = "rx" /\ pc # "rx"
               \/ Class(i) = "rw" /\ pc \notin {"rx", "rw"}
               \/ Class(i) = "zero" /\ pc \notin Classes
               \/ Class(i) = pc /\ i < k}

ReachedInv == DOMAIN vma = Reached

\* All addresses are between the headers and the cursor.
BoundInv ==
  /\ image.base + HeaderReserve <= cursor
  /\ \A i \in DOMAIN vma : image.base + HeaderReserve <= vma[i] /\ End(i) <= cursor

\* The order in which the loops reach the sections.
Earlier(i, j) ==
  \/ Class(i) = Class(j) /\ i < j
  \/ Class(i) = "rx" /\ Class(j) # "rx"
  \/ Class(i) = "rw" /\ Class(j) = "zero"

OrderInv == \A i, j \in DOMAIN vma : Earlier(i, j) => End(i) <= vma[j]

\* Writable sections start on a page after the last read-only one.
PageInv ==
  \A i \in Rx \cap DOMAIN vma :
    /\ pc # "rx" => AlignUp(End(i), PAGE_ALIGN) <= cursor
    /\ \A j \in Rw \cap DOMAIN vma : AlignUp(End(i), PAGE_ALIGN) <= vma[j]

\* What is still to be written does not start before the output ends.
PutInv ==
  /\ pc \in Classes \cup {"assigned"} => DOMAIN put = {}
  /\ pc = "put_rx" => DOMAIN put \subseteq Rx
  /\ \A i \in DOMAIN put : Class(i) # "zero"
  /\ pc \in {"put_rx", "put_rw"} => \A j \in Unput : out <= Offset(j)

IInv ==
  /\ image \in Images /\ TypeOK
  /\ ReachedInv /\ BoundInv /\ OrderInv /\ PageInv
  /\ PutInv /\ FilePlaced
-----------------------------------------------------------------------------
(***************************************************************************)
(* Numbers.                                                                *)
(***************************************************************************)

\* Every non-empty set of naturals has a least element.
LEMMA Least ==
  ASSUME NEW T \in SUBSET Nat, T # {}
  PROVE  \E m \in T : \A x \in T : m <= x
<1> DEFINE R == {ss \in Nat \X Nat : ss[1] < ss[2]}
<1>1. IsWellFoundedOn(R, Nat)
  BY NatLessThanWellFounded, Zenon DEF OpToRel
<1>2. PICK m \in T : \A y \in T : <<y, m>> \notin R
  <2> HIDE DEF R
  <2> QED  BY <1>1, WFMin, Zenon
<1>3. \A y \in T : ~(y < m)
  BY <1>2
<1> QED  BY <1>3

\* One with an upper bound has a greatest.
LEMMA Greatest ==
  ASSUME NEW T \in SUBSET Nat, T # {}, NEW b \in Nat, \A x \in T : x <= b
  PROVE  \E m \in T : \A x \in T : x <= m
<1> DEFINE D == {b - x : x \in T}
<1>1. D \in SUBSET Nat /\ D # {}
  <2>1. \A x \in T : b - x \in Nat
    OBVIOUS
  <2> QED  BY <2>1
<1>2. PICK d \in D : \A y \in D : d <= y
  BY <1>1, Least
<1>3. PICK m \in T : d = b - m
  OBVIOUS
<1>4. \A x \in T : b - x \in D
  OBVIOUS
<1>5. \A x \in T : b - m <= b - x
  BY <1>2, <1>3, <1>4
<1> HIDE DEF D
<1> QED  BY <1>3, <1>5

\* Rounding up never goes down.
LEMMA AlignUpIsUp ==
  ASSUME NEW v \in Nat, NEW a \in Nat \ {0}
  PROVE  AlignUp(v, a) \in Nat /\ v <= AlignUp(v, a)
<1>1. (-v) % a \in 0..(a - 1)
  OBVIOUS
<1> QED  BY <1>1 DEF AlignUp

\* It keeps the order, and what lies on a page is where it was.
LEMMA AlignUpMonotone ==
  ASSUME NEW v \in Nat, NEW w \in Nat, v <= w
  PROVE  AlignUp(v, PAGE_ALIGN) <= AlignUp(w, PAGE_ALIGN)
BY DEF AlignUp, PAGE_ALIGN

LEMMA HeaderReserveType ==
  ASSUME IsImage(image)
  PROVE  HeaderReserve \in Nat
<1>1. image.interp \in Nat
  BY DEF IsImage
<1>2. PhNum \in Nat
  BY DEF PhNum, Count
<1>3. EHDR_SIZE + PhNum * PHDR_SIZE + image.interp \in Nat
  BY <1>1, <1>2 DEF EHDR_SIZE, PHDR_SIZE
<1> QED  BY <1>3, AlignUpIsUp DEF HeaderReserve

\* What is known of a section.
LEMMA SectionType ==
  ASSUME IsImage(image), NEW i \in Ids
  PROVE  /\ i \in Nat /\ i >= 1 /\ Class(i) \in Classes /\ Size(i) \in Nat
         /\ image.secs[i].align \in Nat \ {0}
<1>1. image.secs[i] \in Section /\ i \in Nat /\ i >= 1
  BY DEF IsImage, Ids
<1> QED  BY <1>1 DEF Class, Size, Section
-----------------------------------------------------------------------------
(***************************************************************************)
(* assign_vmas.                                                            *)
(***************************************************************************)

\* The first pass starts with no section.
LEMMA InitInv == Init => IInv
<1> SUFFICES ASSUME Init PROVE IInv
  OBVIOUS
<1> USE DEF Init, Start
<1>1. image \in Images /\ IsImage(image)
  BY ImagesAssumption
<1>2. HeaderReserve \in Nat /\ image.base \in Nat /\ image.n \in Nat
  BY <1>1, HeaderReserveType DEF IsImage
<1>3. DOMAIN vma = {} /\ DOMAIN put = {}
  OBVIOUS
<1>4. TypeOK
  BY <1>1, <1>2, <1>3 DEF TypeOK, Classes, Ids
<1>5. ReachedInv
  <2>1. \A i \in Ids : i \notin Reached
    BY <1>1, SectionType DEF Reached, Classes
  <2>2. Reached \subseteq Ids
    BY DEF Reached
  <2> QED  BY <1>3, <2>1, <2>2 DEF ReachedInv
<1>6. BoundInv /\ OrderInv /\ PageInv
  BY <1>2, <1>3 DEF BoundInv, OrderInv, PageInv
<1>7. PutInv /\ FilePlaced
  BY <1>3 DEF PutInv, FilePlaced
<1> QED  BY <1>1, <1>4, <1>5, <1>6, <1>7 DEF IInv

\* The facts that the passes of assign_vmas leave alone.
LEMMA ImageSame ==
  ASSUME image' = image
  PROVE  /\ Ids' = Ids /\ Rx' = Rx /\ Rw' = Rw /\ HeaderReserve' = HeaderReserve
         /\ \A i : Class(i)' = Class(i) /\ Size(i)' = Size(i)
         /\ \A i, j : Earlier(i, j)' = Earlier(i, j)
<1>1. Ids' = Ids /\ HeaderReserve' = HeaderReserve /\ \A i : Class(i)' = Class(i) /\ Size(i)' = Size(i)
  BY DEF Ids, HeaderReserve, PhNum, Named, Class, Size
<1>2. \A i, j : Earlier(i, j)' = Earlier(i, j)
  BY <1>1 DEF Earlier
<1> QED  BY <1>1, <1>2 DEF Rx, Rw

\* A section of another class is passed over.
LEMMA SkipInv == IInv /\ Skip => IInv'
<1> SUFFICES ASSUME IInv, Skip PROVE IInv'
  OBVIOUS
<1>1. /\ UNCHANGED <<image, pc, cursor, vma, put, out>> /\ k' = k + 1
      /\ k \in Ids /\ pc \in Classes /\ Class(k) # pc
  BY DEF Skip
<1>2. /\ Ids' = Ids /\ Rx' = Rx /\ Rw' = Rw /\ HeaderReserve' = HeaderReserve
      /\ \A i : Class(i)' = Class(i) /\ Size(i)' = Size(i) /\ End(i)' = End(i)
      /\ \A i, j : Earlier(i, j)' = Earlier(i, j)
  BY <1>1, ImageSame DEF End
<1>3. TypeOK'
  BY <1>1, <1>2 DEF IInv, TypeOK, Ids, Classes, IsImage
<1>4. ReachedInv'
  <2>1. Ids \subseteq Int
    BY DEF Ids
  <2>2. \A i \in Ids : i \in Reached' <=> i \in Reached
    BY <1>1, <1>2, <2>1 DEF Reached
  <2>3. Reached' \subseteq Ids /\ Reached \subseteq Ids
    BY <1>2 DEF Reached
  <2> QED  BY <1>1, <2>2, <2>3 DEF IInv, ReachedInv
<1>5. BoundInv' /\ OrderInv' /\ PageInv'
  BY <1>1, <1>2 DEF IInv, BoundInv, OrderInv, PageInv
<1>6. PutInv' /\ FilePlaced'
  BY <1>1 DEF IInv, PutInv, FilePlaced, Classes
<1> QED  BY <1>1, <1>3, <1>4, <1>5, <1>6 DEF IInv

\* A section gets the next address that suits its alignment.
LEMMA AssignInv == IInv /\ Assign => IInv'
<1> SUFFICES ASSUME IInv, Assign PROVE IInv'
  OBVIOUS
<1>0. PICK at, c : c = k /\ at = AlignUp(cursor, image.secs[c].align)
  OBVIOUS
<1>1. /\ UNCHANGED <<image, pc, put, out>> /\ k = c /\ k' = c + 1
      /\ c \in Ids /\ pc \in Classes /\ Class(c) = pc
      /\ vma' = With(vma, c, at) /\ cursor' = at + Size(c)
  BY <1>0 DEF Assign
<1>2. /\ Ids' = Ids /\ Rx' = Rx /\ Rw' = Rw /\ HeaderReserve' = HeaderReserve
      /\ \A i : Class(i)' = Class(i) /\ Size(i)' = Size(i)
      /\ \A i, j : Earlier(i, j)' = Earlier(i, j)
  BY <1>1, ImageSame
<1>3. IsImage(image) /\ cursor \in Nat /\ image.base \in Nat /\ HeaderReserve \in Nat
  BY HeaderReserveType DEF IInv, TypeOK, IsImage
<1>4. at \in Nat /\ cursor <= at /\ Size(c) \in Nat /\ cursor' \in Nat /\ cursor <= cursor'
  <2>1. image.secs[c].align \in Nat \ {0} /\ Size(c) \in Nat
    BY <1>1, <1>3, SectionType
  <2>2. at \in Nat /\ cursor <= at
    BY <1>0, <1>3, <2>1, AlignUpIsUp
  <2> QED  BY <1>1, <1>3, <2>1, <2>2
<1>5. c \notin DOMAIN vma /\ DOMAIN vma' = DOMAIN vma \cup {c} /\ DOMAIN vma \subseteq Ids
  <2>1. c \notin Reached
    BY <1>1, <1>3, SectionType DEF Reached, Classes
  <2> QED  BY <1>1, <2>1 DEF IInv, ReachedInv, TypeOK, With
<1>6. vma'[c] = at /\ \A i \in DOMAIN vma : vma'[i] = vma[i] /\ vma[i] \in Nat
  <2>1. \A i \in DOMAIN vma : vma[i] \in Nat
    BY DEF IInv, TypeOK
  <2>2. \A i \in DOMAIN vma : i # c
    BY <1>5
  <2> QED  BY <1>1, <2>1, <2>2 DEF With
<1>7. End(c)' = cursor' /\ \A i \in DOMAIN vma : End(i)' = End(i) /\ End(i) \in Nat
  <2>1. \A i \in DOMAIN vma : Size(i) \in Nat
    BY <1>3, <1>5, SectionType
  <2>2. End(c)' = cursor'
    BY <1>1, <1>2, <1>6 DEF End
  <2>3. ASSUME NEW i \in DOMAIN vma PROVE End(i)' = End(i) /\ End(i) \in Nat
    BY <1>2, <1>6, <2>1 DEF End
  <2> QED  BY <2>2, <2>3
<1>8. TypeOK'
  <2>1. vma' \in [DOMAIN vma' -> Nat]
    <3>1. \A i \in DOMAIN vma' : vma'[i] \in Nat
      BY <1>4, <1>5, <1>6
    <3>2. vma' = [i \in DOMAIN vma' |-> vma'[i]]
      BY <1>1 DEF With
    <3> QED  BY <3>1, <3>2
  <2>2. k' \in 1..(image.n + 1)
    BY <1>1, <1>3 DEF Ids, IsImage
  <2> QED  BY <1>1, <1>2, <1>4, <1>5, <2>1, <2>2 DEF IInv, TypeOK
<1>9. ReachedInv'
  <2>1. Ids \subseteq Int
    BY DEF Ids
  <2>2. \A i \in Ids : i \in Reached' <=> i \in Reached \/ i = c
    BY <1>1, <1>2, <2>1 DEF Reached, Classes
  <2>3. Reached' \subseteq Ids /\ Reached \subseteq Ids
    BY <1>2 DEF Reached
  <2> QED  BY <1>1, <1>5, <2>2, <2>3 DEF IInv, ReachedInv
<1>10. BoundInv'
  <2>1. image'.base = image.base
    BY <1>1
  <2>2. ASSUME NEW i \in DOMAIN vma
        PROVE  image.base + HeaderReserve <= vma'[i] /\ End(i)' <= cursor'
    BY <1>3, <1>4, <1>6, <1>7 DEF IInv, BoundInv
  <2>3. image.base + HeaderReserve <= vma'[c] /\ End(c)' <= cursor'
    BY <1>3, <1>4, <1>6, <1>7 DEF IInv, BoundInv
  <2>4. image.base + HeaderReserve <= cursor'
    BY <1>3, <1>4 DEF IInv, BoundInv
  <2>5. \A i \in DOMAIN vma' : image.base + HeaderReserve <= vma'[i] /\ End(i)' <= cursor'
    BY <1>5, <2>2, <2>3
  <2> QED  BY <1>2, <2>1, <2>4, <2>5 DEF BoundInv
<1>11. OrderInv'
  <2>1. \A j \in DOMAIN vma : ~Earlier(c, j)
    <3>1. Ids \subseteq Int
      BY DEF Ids
    <3>2. ASSUME NEW j \in DOMAIN vma, Earlier(c, j) PROVE FALSE
      <4>1. j \in Ids /\ j \in Reached
        BY <1>5 DEF IInv, ReachedInv
      <4>2. CASE Class(j) = Class(c)
        <5>1. j < c
          BY <1>1, <4>1, <4>2 DEF Reached, Classes
        <5>2. c < j
          BY <1>1, <3>2, <4>2 DEF Earlier, Classes
        <5>3. j \in Int /\ c \in Int
          BY <1>1, <3>1, <4>1
        <5> QED  BY <5>1, <5>2, <5>3
      <4>3. CASE Class(j) # Class(c)
        BY <1>1, <3>2, <4>1, <4>3 DEF Reached, Earlier, Classes
      <4> QED  BY <4>2, <4>3
    <3> QED  BY <3>2
  <2>2. ~Earlier(c, c)
    BY <1>1 DEF Earlier, Ids
  <2>3. \A i \in DOMAIN vma : End(i) <= at
    BY <1>3, <1>4, <1>7 DEF IInv, BoundInv
  <2> QED  BY <1>2, <1>5, <1>6, <1>7, <2>1, <2>2, <2>3 DEF IInv, OrderInv
<1>12. PageInv'
  <2>1. ASSUME NEW i \in Rx \cap DOMAIN vma PROVE i # c /\ End(i)' = End(i)
    BY <1>5, <1>7
  <2>2. pc = "rx" => c \notin Rw
    BY <1>1 DEF Rw
  <2>3. pc # "rx" => c \notin Rx
    BY <1>1 DEF Rx
  <2>4. pc = "rx" => Rw \cap DOMAIN vma = {}
    BY DEF IInv, ReachedInv, Reached, Rw, Classes
  <2>5. \A i \in DOMAIN vma : AlignUp(End(i), PAGE_ALIGN) \in Nat
    BY <1>7, AlignUpIsUp DEF PAGE_ALIGN
  <2> QED  BY <1>1, <1>2, <1>3, <1>4, <1>5, <1>6, <1>7, <2>1, <2>2, <2>3, <2>4, <2>5 DEF IInv, PageInv
<1>13. PutInv' /\ FilePlaced'
  BY <1>1 DEF IInv, PutInv, FilePlaced, Classes
<1> QED  BY <1>1, <1>8, <1>9, <1>10, <1>11, <1>12, <1>13 DEF IInv

\* The next loop starts at the first section, after the read-only ones on a new
\* page.
LEMMA EndPassInv == IInv /\ EndPass => IInv'
<1> SUFFICES ASSUME IInv, EndPass PROVE IInv'
  OBVIOUS
<1>1. /\ UNCHANGED <<image, vma, put, out>> /\ k' = 1 /\ pc' = NextPass[pc]
      /\ k \notin Ids /\ pc \in Classes
      /\ cursor' = IF pc = "rx" THEN AlignUp(cursor, PAGE_ALIGN) ELSE cursor
  BY DEF EndPass
<1>2. /\ Ids' = Ids /\ Rx' = Rx /\ Rw' = Rw /\ HeaderReserve' = HeaderReserve
      /\ \A i : Class(i)' = Class(i) /\ Size(i)' = Size(i) /\ End(i)' = End(i)
      /\ \A i, j : Earlier(i, j)' = Earlier(i, j)
  BY <1>1, ImageSame DEF End
<1>3. IsImage(image) /\ cursor \in Nat /\ image.base \in Nat /\ HeaderReserve \in Nat /\ image.n \in Nat
  BY HeaderReserveType DEF IInv, TypeOK, IsImage
<1>4. cursor' \in Nat /\ cursor <= cursor'
  BY <1>1, <1>3, AlignUpIsUp DEF PAGE_ALIGN
<1>5. \/ pc = "rx" /\ pc' = "rw"
      \/ pc = "rw" /\ pc' = "zero"
      \/ pc = "zero" /\ pc' = "assigned"
  BY <1>1 DEF NextPass, Classes
<1>6. \A i \in Ids : i < k /\ i >= 1 /\ i \in Int
  BY <1>1, <1>3 DEF IInv, TypeOK, Ids
<1>7. Reached' = Reached
  <2>1. \A i \in Ids : Class(i) \in Classes
    BY <1>3, SectionType
  <2>2. \A i \in Ids : ~(i < 1)
    BY <1>6
  <2>3. \A i \in Ids : i \in Reached' <=> i \in Reached
    BY <1>1, <1>2, <1>5, <1>6, <2>1, <2>2 DEF Reached, Classes
  <2> QED  BY <1>2, <2>3 DEF Reached
<1>8. ReachedInv'
  BY <1>1, <1>7 DEF IInv, ReachedInv
<1>9. TypeOK'
  <2>1. pc' = "assigned" => DOMAIN vma = Ids
    BY <1>1, <1>3, <1>5, <1>6, SectionType DEF IInv, ReachedInv, Reached, Classes
  <2> QED  BY <1>1, <1>2, <1>3, <1>4, <1>5, <2>1 DEF IInv, TypeOK, Classes
<1>10. BoundInv' /\ OrderInv'
  <2>1. \A i \in DOMAIN vma : End(i) \in Nat
    BY <1>3, SectionType DEF IInv, TypeOK, End
  <2> QED  BY <1>1, <1>2, <1>3, <1>4, <2>1 DEF IInv, BoundInv, OrderInv
<1>11. PageInv'
  <2>1. ASSUME NEW i \in Rx \cap DOMAIN vma
        PROVE  /\ End(i) \in Nat /\ AlignUp(End(i), PAGE_ALIGN) \in Nat
               /\ AlignUp(End(i), PAGE_ALIGN) <= AlignUp(cursor, PAGE_ALIGN)
    <3>1. End(i) \in Nat /\ End(i) <= cursor
      BY <1>3, SectionType DEF IInv, TypeOK, End, BoundInv
    <3> QED  BY <1>3, <3>1, AlignUpMonotone, AlignUpIsUp DEF PAGE_ALIGN
  <2> QED  BY <1>1, <1>2, <1>5, <2>1 DEF IInv, PageInv
<1>12. PutInv' /\ FilePlaced'
  BY <1>1, <1>5 DEF IInv, PutInv, FilePlaced, Classes
<1> QED  BY <1>1, <1>8, <1>9, <1>10, <1>11, <1>12 DEF IInv
-----------------------------------------------------------------------------
(***************************************************************************)
(* emit.                                                                   *)
(***************************************************************************)

\* What emit reads of the addresses.
Addressed ==
  /\ IsImage(image) /\ vma \in [Ids -> Nat] /\ cursor \in Nat
  /\ BoundInv /\ OrderInv

LEMMA AssignedIsAddressed == IInv /\ pc \notin Classes => Addressed
BY DEF IInv, TypeOK, Addressed

\* The sort has a first section: the least address, then the least number.
LEMMA FirstExists ==
  ASSUME vma \in [Ids -> Nat], Ids \subseteq Nat, NEW S \in SUBSET Ids, S # {}
  PROVE  FirstOf(S) \in S /\ \A j \in S : Before(FirstOf(S), j)
<1> DEFINE V == {vma[i] : i \in S}
<1>1. PICK v \in V : \A x \in V : v <= x
  <2>1. V \in SUBSET Nat /\ V # {}
    OBVIOUS
  <2> HIDE DEF V
  <2> QED  BY <2>1, Least
<1> DEFINE T == {i \in S : vma[i] = v}
<1>2. PICK m \in T : \A x \in T : m <= x
  <2>1. T \in SUBSET Nat /\ T # {}
    BY <1>1
  <2> HIDE DEF T
  <2> QED  BY <2>1, Least
<1>3. m \in S /\ vma[m] = v
  OBVIOUS
<1>4. \A j \in S : Before(m, j)
  <2>1. \A j \in S : vma[j] \in V /\ v \in Nat /\ vma[j] \in Nat
    BY <1>1
  <2>2. \A j \in S : vma[j] = v => m <= j
    BY <1>2
  <2> QED  BY <1>1, <1>3, <2>1, <2>2 DEF Before
<1>5. \E i \in S : \A j \in S : Before(i, j)
  BY <1>3, <1>4
<1> QED  BY <1>5, Zenon DEF FirstOf

\* And a last one.
LEMMA LastExists ==
  ASSUME vma \in [Ids -> Nat], Ids \subseteq Nat, NEW S \in SUBSET Ids, S # {},
         NEW a \in Nat, \A i \in S : vma[i] <= a,
         NEW b \in Nat, \A i \in S : i <= b
  PROVE  LastOf(S) \in S /\ \A j \in S : Before(j, LastOf(S))
<1> DEFINE V == {vma[i] : i \in S}
<1>1. PICK v \in V : \A x \in V : x <= v
  <2>1. V \in SUBSET Nat /\ V # {} /\ \A x \in V : x <= a
    OBVIOUS
  <2> HIDE DEF V
  <2> QED  BY <2>1, Greatest
<1> DEFINE T == {i \in S : vma[i] = v}
<1>2. PICK m \in T : \A x \in T : x <= m
  <2>1. T \in SUBSET Nat /\ T # {} /\ \A x \in T : x <= b
    BY <1>1
  <2> HIDE DEF T
  <2> QED  BY <2>1, Greatest
<1>3. m \in S /\ vma[m] = v
  OBVIOUS
<1>4. \A j \in S : Before(j, m)
  <2>1. \A j \in S : vma[j] \in V /\ v \in Nat /\ vma[j] \in Nat
    BY <1>1
  <2>2. \A j \in S : vma[j] = v => j <= m
    BY <1>2
  <2> QED
    <3> SUFFICES ASSUME NEW j \in S PROVE Before(j, m)
      OBVIOUS
    <3>1. vma[j] <= vma[m] /\ vma[j] \in Nat /\ vma[m] \in Nat /\ (vma[j] = vma[m] => j <= m)
      BY <1>1, <1>3, <2>1, <2>2
    <3> QED  BY <3>1 DEF Before
<1>5. \E i \in S : \A j \in S : Before(j, i)
  BY <1>3, <1>4
<1> QED  BY <1>5, Zenon DEF LastOf

\* In one class the sort goes by numbers, and sections do not meet.
LEMMA SortedApart ==
  ASSUME Addressed, NEW i \in Ids, NEW j \in Ids, i # j, Class(i) = Class(j), Before(i, j)
  PROVE  End(i) <= vma[j]
<1>1. /\ i \in Nat /\ j \in Nat /\ Size(i) \in Nat /\ Size(j) \in Nat
      /\ vma[i] \in Nat /\ vma[j] \in Nat
  BY SectionType DEF Addressed
<1>2. DOMAIN vma = Ids
  BY DEF Addressed
<1>3. CASE i < j
  BY <1>2, <1>3 DEF Addressed, OrderInv, Earlier
<1>4. CASE j < i
  <2>1. End(j) <= vma[i]
    BY <1>2, <1>4 DEF Addressed, OrderInv, Earlier
  <2> QED  BY <1>1, <1>4, <2>1 DEF Before, End
<1> QED  BY <1>1, <1>3, <1>4

\* The read-only segment has all read-only sections.
LEMMA RxSegment ==
  ASSUME Addressed
  PROVE  /\ RxFileSize \in Nat /\ RwOff \in Nat /\ RxFileSize <= RwOff
         /\ \A i \in Rx : /\ Offset(i) \in Nat /\ HeaderReserve <= Offset(i)
                          /\ Offset(i) + Size(i) <= RxFileSize
<1>1. /\ IsImage(image) /\ image.base \in Nat /\ image.n \in Nat /\ HeaderReserve \in Nat
      /\ DOMAIN vma = Ids /\ cursor \in Nat /\ Ids \subseteq Nat /\ vma \in [Ids -> Nat]
      /\ \A i \in Ids : i <= image.n
  BY HeaderReserveType DEF Addressed, IsImage, Ids
<1>2. ASSUME NEW i \in Ids
      PROVE  /\ vma[i] \in Nat /\ Size(i) \in Nat /\ End(i) \in Nat /\ End(i) = vma[i] + Size(i)
             /\ image.base + HeaderReserve <= vma[i] /\ vma[i] <= cursor
  <2>1. vma[i] \in Nat /\ Size(i) \in Nat
    BY <1>1, SectionType
  <2> QED  BY <1>1, <2>1 DEF Addressed, BoundInv, End
<1>3. RxEnd \in Nat /\ image.base <= RxEnd /\ \A i \in Rx : End(i) <= RxEnd
  <2>1. CASE Rx = {}
    BY <1>1, <2>1 DEF RxEnd
  <2>2. CASE Rx # {}
    <3>1. Rx \in SUBSET Ids
      BY DEF Rx
    <3>2. \A i \in Rx : vma[i] <= cursor /\ i <= image.n
      BY <1>1, <1>2, <3>1
    <3>3. PICK m \in Rx : m = LastOf(Rx) /\ \A j \in Rx : Before(j, m)
      BY <1>1, <2>2, <3>1, <3>2, LastExists
    <3>4. RxEnd = End(m)
      BY <2>2, <3>3 DEF RxEnd
    <3>5. ASSUME NEW i \in Rx PROVE End(i) <= End(m)
      <4>1. i = m \/ End(i) <= vma[m]
        BY <3>3, SortedApart DEF Rx
      <4> QED  BY <1>2, <3>1, <4>1
    <3> QED  BY <1>1, <1>2, <3>1, <3>4, <3>5
  <2> QED  BY <2>1, <2>2
<1>4. RxFileSize \in Nat /\ RxFileSize = RxEnd - image.base
  BY <1>1, <1>3 DEF RxFileSize
<1>5. RwOff \in Nat /\ RxFileSize <= RwOff
  BY <1>4, AlignUpIsUp DEF RwOff, PAGE_ALIGN
<1>6. ASSUME NEW i \in Rx
      PROVE  /\ Offset(i) \in Nat /\ HeaderReserve <= Offset(i)
             /\ Offset(i) + Size(i) <= RxFileSize
  <2>1. i \in Ids /\ Offset(i) = vma[i] - image.base
    BY DEF Rx, Offset
  <2> QED  BY <1>1, <1>2, <1>3, <1>4, <2>1
<1> QED  BY <1>4, <1>5, <1>6

\* The writable segment has the bytes of all writable sections.
LEMMA RwSegment ==
  ASSUME Addressed
  PROVE  /\ RwVma0 \in Nat /\ RwFileSize \in Nat /\ TablesOff \in Nat /\ RwOff + RwFileSize <= TablesOff
         /\ \A i \in Rw : Class(i) = "rw" =>
              /\ Offset(i) \in Nat /\ RwOff <= Offset(i)
              /\ Offset(i) + Size(i) <= RwOff + RwFileSize
<1>1. /\ IsImage(image) /\ Ids \subseteq Nat /\ vma \in [Ids -> Nat] /\ cursor \in Nat
      /\ DOMAIN vma = Ids
  BY DEF Addressed, Ids
<1>2. ASSUME NEW i \in Ids
      PROVE  /\ vma[i] \in Nat /\ Size(i) \in Nat /\ End(i) \in Nat /\ End(i) = vma[i] + Size(i)
             /\ End(i) <= cursor
  BY <1>1, SectionType DEF Addressed, BoundInv, End
<1>3. RwVma0 \in Nat /\ \A i \in Rw : RwVma0 <= vma[i]
  <2>1. CASE Rw = {}
    BY <2>1 DEF RwVma0
  <2>2. CASE Rw # {}
    <3>1. Rw \in SUBSET Ids
      BY DEF Rw
    <3>2. PICK m \in Rw : m = FirstOf(Rw) /\ \A j \in Rw : Before(m, j)
      BY <1>1, <2>2, <3>1, FirstExists
    <3>3. RwVma0 = vma[m]
      BY <2>2, <3>2 DEF RwVma0
    <3>4. \A i \in Rw : vma[m] \in Nat /\ vma[i] \in Nat /\ Before(m, i)
      BY <1>2, <3>1, <3>2
    <3> QED  BY <3>3, <3>4 DEF Before
  <2> QED  BY <2>1, <2>2
<1> DEFINE D == {i \in Ids : Class(i) = "rw"}
<1>4. \A i \in D : i \in Rw /\ i \in Ids /\ End(i) - RwVma0 \in Nat /\ End(i) - RwVma0 <= cursor
  <2>1. \A i \in D : i \in Rw /\ i \in Ids
    BY DEF Rw
  <2> QED  BY <1>1, <1>2, <1>3, <2>1
<1>5. RwFileSize \in Nat /\ \A i \in D : End(i) - RwVma0 <= RwFileSize
  <2>1. Ends = {End(i) - RwVma0 : i \in D}
    BY DEF Ends
  <2> HIDE DEF D
  <2>2. Ends \cup {0} \in SUBSET Nat /\ \A e \in Ends \cup {0} : e <= cursor
    BY <1>1, <1>4, <2>1
  <2>3. \E m \in Ends \cup {0} : \A e \in Ends \cup {0} : e <= m
    BY <1>1, <2>2, Greatest
  <2>4. RwFileSize \in Ends \cup {0} /\ \A e \in Ends \cup {0} : e <= RwFileSize
    BY <2>3, Zenon DEF RwFileSize
  <2> QED  BY <2>1, <2>2, <2>4
<1>6. RwOff \in Nat
  BY RxSegment
<1>7. TablesOff \in Nat /\ RwOff + RwFileSize <= TablesOff
  BY <1>5, <1>6, AlignUpIsUp DEF TablesOff
<1>8. ASSUME NEW i \in Rw, Class(i) = "rw"
      PROVE  /\ Offset(i) \in Nat /\ RwOff <= Offset(i)
             /\ Offset(i) + Size(i) <= RwOff + RwFileSize
  <2>1. i \in Ids /\ i \in D /\ Offset(i) = RwOff + (vma[i] - RwVma0)
    BY <1>8 DEF Rw, Offset
  <2> HIDE DEF D
  <2> QED  BY <1>2, <1>3, <1>5, <1>6, <2>1
<1> QED  BY <1>3, <1>5, <1>7, <1>8

\* What emit reads it does not change.
LEMMA LayoutSame ==
  ASSUME UNCHANGED <<image, vma>>
  PROVE  /\ Ids' = Ids /\ Rx' = Rx /\ Rw' = Rw /\ HeaderReserve' = HeaderReserve
         /\ RxFileSize' = RxFileSize /\ RwOff' = RwOff /\ RwFileSize' = RwFileSize
         /\ \A i : Class(i)' = Class(i) /\ Size(i)' = Size(i) /\ End(i)' = End(i) /\ Offset(i)' = Offset(i)
         /\ \A i, j : Before(i, j)' = Before(i, j) /\ Earlier(i, j)' = Earlier(i, j)
<1>1. /\ Ids' = Ids /\ Rx' = Rx /\ Rw' = Rw /\ HeaderReserve' = HeaderReserve
      /\ \A i : Class(i)' = Class(i) /\ Size(i)' = Size(i)
      /\ \A i, j : Earlier(i, j)' = Earlier(i, j)
  BY ImageSame
<1>2. \A i : End(i)' = End(i)
  BY <1>1 DEF End
<1>3. \A i, j : Before(i, j)' = Before(i, j)
  BY DEF Before
<1>4. FirstOf(Rw)' = FirstOf(Rw) /\ LastOf(Rx)' = LastOf(Rx)
  BY <1>1, <1>3 DEF FirstOf, LastOf
<1>5. RwVma0' = RwVma0
  BY <1>1, <1>4 DEF RwVma0
<1>6. End(LastOf(Rx))' = End(LastOf(Rx))
  BY <1>1, <1>4 DEF End, Size
<1>7. RxFileSize' = RxFileSize
  BY <1>1, <1>6 DEF RxFileSize, RxEnd
<1>8. RwOff' = RwOff
  BY <1>7 DEF RwOff
<1>9. RwFileSize' = RwFileSize
  BY <1>1, <1>2, <1>5 DEF RwFileSize, Ends
<1>10. \A i : Offset(i)' = Offset(i)
  BY <1>1, <1>5, <1>8 DEF Offset
<1> QED  BY <1>1, <1>2, <1>3, <1>7, <1>8, <1>9, <1>10

\* emit leaves the addresses as they are.
LEMMA AddressesStay ==
  ASSUME IInv, pc \notin Classes, pc' \notin Classes, UNCHANGED <<image, k, cursor, vma>>
  PROVE  ReachedInv' /\ BoundInv' /\ OrderInv' /\ PageInv'
<1>1. /\ Ids' = Ids /\ Rx' = Rx /\ Rw' = Rw /\ HeaderReserve' = HeaderReserve
      /\ \A i : Class(i)' = Class(i) /\ Size(i)' = Size(i) /\ End(i)' = End(i)
      /\ \A i, j : Earlier(i, j)' = Earlier(i, j)
  BY LayoutSame
<1>2. Reached' = Ids
  <2>1. \A i \in Ids : Class(i) \in Classes
    BY SectionType DEF IInv, TypeOK
  <2>2. \A i \in Ids : i \in Reached'
    BY <1>1, <2>1 DEF Reached, Classes
  <2> QED  BY <1>1, <2>2 DEF Reached
<1>3. ReachedInv'
  BY <1>2 DEF IInv, TypeOK, ReachedInv
<1>4. BoundInv' /\ OrderInv'
  BY <1>1 DEF IInv, BoundInv, OrderInv
<1>5. PageInv'
  BY <1>1 DEF IInv, PageInv, Classes
<1> QED  BY <1>3, <1>4, <1>5

\* The output may be cut or padded where nothing ends later.
LEMMA ResizeKeepsPlaced ==
  ASSUME FilePlaced, UNCHANGED <<image, vma, put>>,
         \A i \in DOMAIN put : put[i] + Size(i) <= out'
  PROVE  FilePlaced'
<1>1. /\ Ids' = Ids /\ RxFileSize' = RxFileSize /\ RwOff' = RwOff /\ RwFileSize' = RwFileSize
      /\ \A i : Class(i)' = Class(i) /\ Size(i)' = Size(i) /\ Offset(i)' = Offset(i)
  BY LayoutSame
<1> QED  BY <1>1 DEF FilePlaced

\* The headers fill what is reserved for them, before every section.
LEMMA PutHeadersInv == IInv /\ PutHeaders => IInv'
<1> SUFFICES ASSUME IInv, PutHeaders PROVE IInv'
  OBVIOUS
<1>1. /\ UNCHANGED <<image, k, cursor, vma, put>> /\ pc = "assigned" /\ pc' = "put_rx"
      /\ out' = HeaderReserve /\ pc \notin Classes /\ pc' \notin Classes
  BY DEF PutHeaders, Classes
<1>2. Addressed /\ IsImage(image) /\ HeaderReserve \in Nat
  BY <1>1, AssignedIsAddressed, HeaderReserveType DEF Addressed
<1>3. TypeOK'
  BY <1>1, <1>2, LayoutSame DEF IInv, TypeOK
<1>4. DOMAIN put = {}
  BY <1>1 DEF IInv, PutInv
<1>5. PutInv'
  <2>1. Unput' = Rx
    BY <1>1, <1>4, LayoutSame DEF Unput
  <2>2. \A i \in Rx : HeaderReserve <= Offset(i)
    BY <1>2, RxSegment
  <2>3. \A j \in Unput' : out' <= Offset(j)'
    BY <1>1, <2>1, <2>2, LayoutSame
  <2> QED  BY <1>1, <1>4, <2>3 DEF PutInv, Classes
<1>6. FilePlaced'
  BY <1>1, <1>4 DEF FilePlaced
<1> QED  BY <1>1, <1>3, <1>5, <1>6, AddressesStay DEF IInv

\* A section is appended where its header says, since nothing reaches over it.
LEMMA PutSectionInv == IInv /\ PutSection => IInv'
<1> SUFFICES ASSUME IInv, PutSection PROVE IInv'
  OBVIOUS
<1>1. /\ UNCHANGED <<image, pc, k, cursor, vma>> /\ pc \in {"put_rx", "put_rw"}
      /\ pc \notin Classes /\ pc' \notin Classes
  BY DEF PutSection, Classes
<1>2. Addressed /\ IsImage(image)
  BY <1>1, AssignedIsAddressed DEF Addressed
<1>3. PICK c \in Unput :
        /\ \A j \in Unput : Before(c, j)
        /\ LET at == IF out < Offset(c) THEN Offset(c) ELSE out IN
             put' = With(put, c, at) /\ out' = at + Size(c)
  BY DEF PutSection
<1>4. /\ c \in Ids /\ c \notin DOMAIN put /\ Class(c) # "zero"
      /\ pc = "put_rx" => c \in Rx
      /\ pc = "put_rw" => c \in Rw /\ Class(c) = "rw"
      /\ c \in Rx => Class(c) = "rx"
  BY <1>1, <1>3 DEF Unput, Rx, Rw
<1>5. /\ Offset(c) \in Nat /\ Size(c) \in Nat /\ out \in Nat /\ out <= Offset(c)
      /\ c \in Rx => Offset(c) + Size(c) <= RxFileSize
      /\ Class(c) = "rw" => RwOff <= Offset(c) /\ Offset(c) + Size(c) <= RwOff + RwFileSize
  <2>1. Size(c) \in Nat /\ out \in Nat
    BY <1>2, <1>4, SectionType DEF IInv, TypeOK
  <2>2. out <= Offset(c)
    BY <1>1, <1>3 DEF IInv, PutInv
  <2>3. CASE pc = "put_rx"
    BY <1>2, <1>4, <2>1, <2>2, <2>3, RxSegment
  <2>4. CASE pc = "put_rw"
    <3>1. c \notin Rx
      BY <1>4, <2>4 DEF Rx
    <3> QED  BY <1>2, <1>4, <2>1, <2>2, <2>4, <3>1, RwSegment
  <2> QED  BY <1>1, <2>3, <2>4
<1>6. put' = With(put, c, Offset(c)) /\ out' = Offset(c) + Size(c) /\ out' \in Nat /\ out <= out'
  <2>1. (IF out < Offset(c) THEN Offset(c) ELSE out) = Offset(c)
    BY <1>5
  <2> QED  BY <1>3, <1>5, <2>1
<1>7. /\ DOMAIN put' = DOMAIN put \cup {c} /\ put'[c] = Offset(c)
      /\ \A i \in DOMAIN put : put'[i] = put[i] /\ put[i] \in Nat
  <2>1. \A i \in DOMAIN put : i # c /\ put[i] \in Nat
    BY <1>4 DEF IInv, TypeOK
  <2> QED  BY <1>6, <2>1 DEF With
<1>8. TypeOK'
  <2>1. put' \in [DOMAIN put' -> Nat]
    <3>1. \A i \in DOMAIN put' : put'[i] \in Nat
      BY <1>5, <1>7
    <3>2. put' = [i \in DOMAIN put' |-> put'[i]]
      BY <1>6 DEF With
    <3> QED  BY <3>1, <3>2
  <2> QED  BY <1>1, <1>4, <1>6, <1>7, <2>1, LayoutSame DEF IInv, TypeOK
<1>9. PutInv'
  <2>1. Unput' = Unput \ {c}
    BY <1>1, <1>7, LayoutSame DEF Unput
  <2>2. ASSUME NEW j \in Unput \ {c} PROVE Offset(c) + Size(c) <= Offset(j)
    <3>1. j \in Ids /\ Class(j) = Class(c)
      BY <1>1, <1>4 DEF Unput, Rx, Rw
    <3>2. End(c) <= vma[j]
      BY <1>2, <1>3, <1>4, <3>1, SortedApart
    <3>3. vma[c] \in Nat /\ vma[j] \in Nat /\ image.base \in Nat
      BY <1>2, <1>4, <3>1 DEF Addressed, IsImage
    <3>4. CASE Class(c) = "rx"
      BY <1>5, <3>1, <3>2, <3>3, <3>4 DEF Offset, End
    <3>5. CASE Class(c) # "rx"
      <4>1. RwOff \in Nat /\ RwVma0 \in Int
        BY <1>2, RxSegment, RwSegment
      <4> QED  BY <1>5, <3>1, <3>2, <3>3, <3>5, <4>1 DEF Offset, End
    <3> QED  BY <3>4, <3>5
  <2>3. \A j \in Unput' : out' <= Offset(j)'
    BY <1>6, <2>1, <2>2, <1>1, LayoutSame
  <2>4. pc' = "put_rx" => DOMAIN put' \subseteq Rx'
    BY <1>1, <1>4, <1>7, LayoutSame DEF IInv, PutInv
  <2>5. \A i \in DOMAIN put' : Class(i)' # "zero"
    BY <1>1, <1>4, <1>7, LayoutSame DEF IInv, PutInv
  <2> QED  BY <1>1, <2>3, <2>4, <2>5 DEF PutInv, Classes
<1>10. FilePlaced'
  <2>1. /\ Ids' = Ids /\ RxFileSize' = RxFileSize /\ RwOff' = RwOff /\ RwFileSize' = RwFileSize
        /\ \A i : Class(i)' = Class(i) /\ Size(i)' = Size(i) /\ Offset(i)' = Offset(i)
    BY <1>1, LayoutSame
  <2>2. \A i \in DOMAIN put : put[i] \in Nat /\ Size(i) \in Nat /\ put[i] + Size(i) <= out
    <3>1. DOMAIN put \subseteq Ids
      BY DEF IInv, TypeOK
    <3> QED  BY <1>2, <1>7, <3>1, SectionType DEF IInv, FilePlaced
  <2>3. ASSUME NEW i \in DOMAIN put'
        PROVE  /\ put'[i] = Offset(i) /\ put'[i] + Size(i) <= out'
               /\ Class(i) = "rx" => put'[i] + Size(i) <= RxFileSize
               /\ Class(i) = "rw" => RwOff <= put'[i] /\ put'[i] + Size(i) <= RwOff + RwFileSize
    <3>1. CASE i = c
      BY <1>4, <1>5, <1>6, <1>7, <3>1 DEF Rx
    <3>2. CASE i # c
      BY <1>5, <1>6, <1>7, <2>2, <3>2 DEF IInv, FilePlaced
    <3> QED  BY <3>1, <3>2
  <2>4. ASSUME NEW i \in DOMAIN put', NEW j \in DOMAIN put', i # j
        PROVE  put'[i] + Size(i) <= put'[j] \/ put'[j] + Size(j) <= put'[i]
    <3>1. CASE i = c
      BY <1>5, <1>7, <2>2, <2>4, <3>1
    <3>2. CASE j = c
      BY <1>5, <1>7, <2>2, <2>4, <3>2
    <3>3. CASE i # c /\ j # c
      BY <1>7, <2>4, <3>3 DEF IInv, FilePlaced
    <3> QED  BY <3>1, <3>2, <3>3
  <2> QED  BY <2>1, <2>3, <2>4 DEF FilePlaced
<1> QED  BY <1>1, <1>8, <1>9, <1>10, AddressesStay DEF IInv

\* All read-only sections are written and end before the writable ones start.
LEMMA EndRxInv == IInv /\ EndRx => IInv'
<1> SUFFICES ASSUME IInv, EndRx PROVE IInv'
  OBVIOUS
<1>1. /\ UNCHANGED <<image, k, cursor, vma, put>> /\ pc = "put_rx" /\ pc' = "put_rw"
      /\ out' = RwOff /\ pc \notin Classes /\ pc' \notin Classes
  BY DEF EndRx, Classes
<1>2. Addressed /\ IsImage(image)
  BY <1>1, AssignedIsAddressed DEF Addressed
<1>3. RwOff \in Nat /\ RxFileSize \in Nat /\ RxFileSize <= RwOff
  BY <1>2, RxSegment
<1>4. TypeOK'
  BY <1>1, <1>3, LayoutSame DEF IInv, TypeOK
<1>5. \A i \in DOMAIN put : put[i] + Size(i) <= out'
  <2>1. ASSUME NEW i \in DOMAIN put PROVE put[i] + Size(i) <= RwOff
    <3>1. i \in Rx /\ Class(i) = "rx" /\ i \in Ids
      BY <1>1 DEF IInv, PutInv, Rx
    <3>2. put[i] \in Nat /\ Size(i) \in Nat
      BY <1>2, <3>1, SectionType DEF IInv, TypeOK
    <3> QED  BY <1>3, <3>1, <3>2 DEF IInv, FilePlaced
  <2> QED  BY <1>1, <2>1
<1>6. FilePlaced'
  BY <1>1, <1>5, ResizeKeepsPlaced DEF IInv
<1>7. PutInv'
  <2>1. \A j \in Unput' : j \in Rw /\ Class(j) = "rw"
    BY <1>1, LayoutSame DEF Unput
  <2>2. \A j \in Unput' : out' <= Offset(j)'
    BY <1>1, <1>2, <2>1, RwSegment, LayoutSame
  <2>3. \A i \in DOMAIN put' : Class(i)' # "zero"
    BY <1>1, LayoutSame DEF IInv, PutInv
  <2> QED  BY <1>1, <2>2, <2>3 DEF PutInv, Classes
<1> QED  BY <1>1, <1>4, <1>6, <1>7, AddressesStay DEF IInv

\* All sections are written and end before the tables start.
LEMMA EndRwInv == IInv /\ EndRw => IInv'
<1> SUFFICES ASSUME IInv, EndRw PROVE IInv'
  OBVIOUS
<1>1. /\ UNCHANGED <<image, k, cursor, vma, put>> /\ pc = "put_rw" /\ pc' = "tables"
      /\ out' = TablesOff /\ pc \notin Classes /\ pc' \notin Classes
  BY DEF EndRw, Classes
<1>2. Addressed /\ IsImage(image)
  BY <1>1, AssignedIsAddressed DEF Addressed
<1>3. /\ RwOff \in Nat /\ RxFileSize \in Nat /\ RxFileSize <= RwOff
      /\ RwFileSize \in Nat /\ TablesOff \in Nat /\ RwOff + RwFileSize <= TablesOff
  BY <1>2, RxSegment, RwSegment
<1>4. TypeOK'
  BY <1>1, <1>3, LayoutSame DEF IInv, TypeOK
<1>5. \A i \in DOMAIN put : put[i] + Size(i) <= out'
  <2>1. ASSUME NEW i \in DOMAIN put PROVE put[i] + Size(i) <= TablesOff
    <3>1. i \in Ids /\ Class(i) \in {"rx", "rw"}
      BY <1>2, SectionType DEF IInv, TypeOK, PutInv, Classes
    <3>2. put[i] \in Nat /\ Size(i) \in Nat
      BY <1>2, <3>1, SectionType DEF IInv, TypeOK
    <3> QED  BY <1>3, <3>1, <3>2 DEF IInv, FilePlaced
  <2> QED  BY <1>1, <2>1
<1>6. FilePlaced'
  BY <1>1, <1>5, ResizeKeepsPlaced DEF IInv
<1>7. PutInv'
  BY <1>1, LayoutSame DEF IInv, PutInv, Classes
<1> QED  BY <1>1, <1>4, <1>6, <1>7, AddressesStay DEF IInv

\* The tables are appended.
LEMMA PutTablesInv == IInv /\ PutTables => IInv'
<1> SUFFICES ASSUME IInv, PutTables PROVE IInv'
  OBVIOUS
<1>1. /\ UNCHANGED <<image, k, cursor, vma, put>> /\ pc = "tables" /\ pc' = "done"
      /\ out' = AlignUp(out + image.tables, 8) + (image.n + 4) * SHDR_SIZE
      /\ pc \notin Classes /\ pc' \notin Classes
  BY DEF PutTables, Classes
<1>2. IsImage(image) /\ image.tables \in Nat /\ image.n \in Nat /\ out \in Nat
  BY DEF IInv, TypeOK, IsImage
<1>3. out' \in Nat /\ out <= out'
  <2>1. AlignUp(out + image.tables, 8) \in Nat /\ out + image.tables <= AlignUp(out + image.tables, 8)
    BY <1>2, AlignUpIsUp
  <2> QED  BY <1>1, <1>2, <2>1 DEF SHDR_SIZE
<1>4. TypeOK'
  BY <1>1, <1>3, LayoutSame DEF IInv, TypeOK
<1>5. \A i \in DOMAIN put : put[i] + Size(i) <= out'
  <2>1. ASSUME NEW i \in DOMAIN put PROVE put[i] \in Nat /\ Size(i) \in Nat /\ put[i] + Size(i) <= out
    BY <1>2, SectionType DEF IInv, TypeOK, FilePlaced
  <2> QED  BY <1>2, <1>3, <2>1
<1>6. FilePlaced'
  BY <1>1, <1>5, ResizeKeepsPlaced DEF IInv
<1>7. PutInv'
  BY <1>1, LayoutSame DEF IInv, PutInv, Classes
<1> QED  BY <1>1, <1>4, <1>6, <1>7, AddressesStay DEF IInv

LEMMA StutterInv == IInv /\ UNCHANGED layoutVars => IInv'
<1> SUFFICES ASSUME IInv, UNCHANGED layoutVars PROVE IInv'
  OBVIOUS
<1>1. UNCHANGED <<image, pc, k, cursor, vma, put, out>>
  BY DEF layoutVars
<1>2. TypeOK'
  BY <1>1, LayoutSame DEF IInv, TypeOK
<1>3. Reached' = Reached
  BY <1>1, LayoutSame DEF Reached
<1>4. ReachedInv' /\ BoundInv' /\ OrderInv' /\ PageInv'
  BY <1>1, <1>3, LayoutSame DEF IInv, ReachedInv, BoundInv, OrderInv, PageInv
<1>5. Unput' = Unput
  BY <1>1, LayoutSame DEF Unput
<1>6. PutInv' /\ FilePlaced'
  BY <1>1, <1>5, LayoutSame DEF IInv, PutInv, FilePlaced
<1> QED  BY <1>1, <1>2, <1>4, <1>6 DEF IInv
-----------------------------------------------------------------------------
(***************************************************************************)
(* The theorems.                                                           *)
(***************************************************************************)

LEMMA NextInv == IInv /\ [LayoutNext]_layoutVars => IInv'
<1> SUFFICES ASSUME IInv, [LayoutNext]_layoutVars PROVE IInv'
  OBVIOUS
<1>1. CASE AssignStep
  BY <1>1, SkipInv, AssignInv, EndPassInv DEF AssignStep
<1>2. CASE EmitStep
  BY <1>2, PutHeadersInv, PutSectionInv, EndRxInv, EndRwInv, PutTablesInv DEF EmitStep
<1>3. CASE Done
  BY <1>3, StutterInv DEF Done
<1>4. CASE UNCHANGED layoutVars
  BY <1>4, StutterInv
<1> QED  BY <1>1, <1>2, <1>3, <1>4 DEF LayoutNext

LEMMA Inductive == LayoutSpec => []IInv
<1> QED  BY InitInv, NextInv, PTL DEF LayoutSpec

\* The type invariant of the two passes of elfout.rs.
THEOREM TypeCorrect == LayoutSpec => []TypeOK
<1>1. IInv => TypeOK
  BY DEF IInv
<1> QED  BY <1>1, Inductive, PTL

\* assign_vmas gives no two sections the same memory, keeps the headers free and
\* never puts code and writable data on one page.
THEOREM Apart == LayoutSpec => []MemoryApart
<1>1. IInv => MemoryApart
  <2> SUFFICES ASSUME IInv, Assigned PROVE MemoryApart
    BY DEF MemoryApart
  <2>1. DOMAIN vma = Ids /\ IsImage(image)
    BY DEF IInv, TypeOK, Assigned
  <2>2. \A i \in Ids : vma[i] >= image.base + HeaderReserve
    <3>1. ASSUME NEW i \in Ids PROVE vma[i] >= image.base + HeaderReserve
      <4>1. image.base + HeaderReserve <= vma[i]
        BY <2>1 DEF IInv, BoundInv
      <4>2. image.base + HeaderReserve \in Int /\ vma[i] \in Int
        BY <2>1, HeaderReserveType DEF IInv, TypeOK, IsImage
      <4> QED  BY <4>1, <4>2
    <3> QED  BY <3>1
  <2>3. ASSUME NEW i \in Ids, NEW j \in Ids, i # j
        PROVE  End(i) <= vma[j] \/ End(j) <= vma[i]
    <3>1. Earlier(i, j) \/ Earlier(j, i)
      <4>1. i \in Nat /\ j \in Nat /\ Class(i) \in Classes /\ Class(j) \in Classes
        BY <2>1, SectionType
      <4> QED  BY <2>3, <4>1 DEF Earlier, Classes
    <3> QED  BY <2>1, <3>1 DEF IInv, OrderInv
  <2>4. \A i \in Rx, j \in Rw : AlignUp(End(i), PAGE_ALIGN) <= vma[j]
    BY <2>1 DEF IInv, PageInv, Rx, Rw
  <2> QED  BY <2>2, <2>3, <2>4 DEF MemoryApart
<1> QED  BY <1>1, Inductive, PTL

\* emit puts every section where its header says, in the part of the file that
\* its segment maps, and overwrites and cuts nothing.
THEOREM Placed == LayoutSpec => []FilePlaced
<1>1. IInv => FilePlaced
  BY DEF IInv
<1> QED  BY <1>1, Inductive, PTL
-----------------------------------------------------------------------------
(***************************************************************************)
(* Mapping: pages, and what the memory of a segment has.                   *)
(***************************************************************************)

\* The writable sections start on a page: the cursor is on one when the first
\* of them gets its address, and the alignment of that section keeps it there.
AlignInv ==
  /\ pc \in {"rw", "zero"} /\ Rw \cap DOMAIN vma = {} => cursor % PAGE_ALIGN = 0
  /\ Rw \cap DOMAIN vma # {} =>
       \E i \in Rw \cap DOMAIN vma :
         /\ vma[i] % PAGE_ALIGN = 0
         /\ \A j \in Rw \cap DOMAIN vma : vma[i] <= vma[j]

\* Rounding up to a page ends on a page.
LEMMA AlignUpToPage ==
  ASSUME NEW v \in Nat
  PROVE  AlignUp(v, PAGE_ALIGN) % PAGE_ALIGN = 0
BY DEF AlignUp, PAGE_ALIGN

\* A product of a is nothing modulo a.
LEMMA ProductMod ==
  ASSUME NEW a \in Nat \ {0}, NEW m \in Int
  PROVE  (a * m) % a = 0
<1> DEFINE r == (a * m) % a
           q == (a * m) \div a
<1>1. a * m \in Int
  OBVIOUS
<1>2. r \in 0..(a - 1) /\ q \in Int /\ a * m = a * q + r
  BY <1>1
<1> HIDE DEF r, q
<1>3. a * (m - q) = r
  BY <1>2
<1>4. m - q >= 1 => a * (m - q) >= a
  BY <1>2
<1>5. m - q <= -1 => a * (m - q) <= -a
  BY <1>2
<1>6. m - q = 0
  BY <1>2, <1>3, <1>4, <1>5
<1> QED  BY <1>2, <1>3, <1>6 DEF r

\* Its remainder is what is added to it.
LEMMA RestOf ==
  ASSUME NEW a \in Nat \ {0}, NEW m \in Int, NEW r \in 0..(a - 1)
  PROVE  (a * m + r) % a = r
<1> DEFINE x == a * m + r
           d == x % a
           q == x \div a
<1>1. x \in Int
  OBVIOUS
<1>2. d \in 0..(a - 1) /\ q \in Int /\ x = a * q + d
  BY <1>1
<1>3. a * m + r = a * q + d
  BY <1>2
<1> HIDE DEF d, q, x
<1>4. a * (m - q) = d - r /\ m - q \in Int
  BY <1>2, <1>3
<1>5. m - q >= 1 => a * (m - q) >= a
  BY <1>4
<1>6. m - q <= -1 => a * (m - q) <= -a
  BY <1>4
<1>7. m - q = 0
  BY <1>2, <1>4, <1>5, <1>6
<1> QED  BY <1>2, <1>4, <1>7 DEF d, x

\* Two numbers leave the same rest exactly if their difference leaves none.
LEMMA SameRest ==
  ASSUME NEW a \in Nat \ {0}, NEW x \in Int, NEW v \in Int
  PROVE  (x % a = (x - v) % a) <=> v % a = 0
<1>1. PICK q \in Int, d \in 0..(a - 1) : x = a * q + d /\ d = x % a
  <2>1. x \div a \in Int /\ x % a \in 0..(a - 1) /\ x = a * (x \div a) + (x % a)
    OBVIOUS
  <2> QED  BY <2>1
<1>2. PICK p \in Int, e \in 0..(a - 1) : x - v = a * p + e /\ e = (x - v) % a
  <2>1. x - v \in Int
    OBVIOUS
  <2>2. (x - v) \div a \in Int /\ (x - v) % a \in 0..(a - 1) /\ x - v = a * ((x - v) \div a) + ((x - v) % a)
    BY <2>1
  <2> QED  BY <2>2
<1>3. ASSUME d = e PROVE v % a = 0
  <2>1. v = a * (q - p) /\ q - p \in Int
    BY <1>1, <1>2, <1>3
  <2> QED  BY <2>1, ProductMod
<1>4. ASSUME v % a = 0 PROVE d = e
  <2>1. PICK k0 \in Int : v = a * k0
    <3>1. v \div a \in Int /\ v = a * (v \div a) + (v % a)
      OBVIOUS
    <3> QED  BY <1>4, <3>1
  <2>2. x - v = a * (q - k0) + d /\ q - k0 \in Int
    BY <1>1, <2>1
  <2> QED  BY <1>1, <1>2, <2>2, RestOf
<1> QED  BY <1>1, <1>2, <1>3, <1>4

\* Nor does an alignment of a section leave a page.
LEMMA AlignUpOnPage ==
  ASSUME NEW v \in Nat, v % PAGE_ALIGN = 0, NEW a \in Nat \ {0},
         PAGE_ALIGN % a = 0 \/ a % PAGE_ALIGN = 0
  PROVE  AlignUp(v, a) % PAGE_ALIGN = 0
<1>1. PICK q \in Int : v = 4096 * q
  <2>1. v \div 4096 \in Int /\ v = 4096 * (v \div 4096)
    BY DEF PAGE_ALIGN
  <2> QED  BY <2>1
<1>2. CASE PAGE_ALIGN % a = 0
  <2>1. PICK r \in Int : 4096 = a * r
    <3>1. 4096 \div a \in Int /\ 4096 = a * (4096 \div a) + (4096 % a) /\ (4096 % a) = 0
      BY <1>2 DEF PAGE_ALIGN
    <3> QED  BY <3>1
  <2>2. -v = a * (r * (-q)) /\ r * (-q) \in Int
    <3>1. -v = (a * r) * (-q)
      BY <1>1, <2>1
    <3> QED  BY <3>1
  <2>3. (-v) % a = 0
    BY <2>2, ProductMod
  <2> QED  BY <2>3 DEF AlignUp
<1>3. CASE a % PAGE_ALIGN = 0
  <2>1. PICK k0 \in Int : a = 4096 * k0
    <3>1. a \div 4096 \in Int /\ a = 4096 * (a \div 4096)
      BY <1>3 DEF PAGE_ALIGN
    <3> QED  BY <3>1
  <2>2. PICK d \in Int : (-v) = a * d + ((-v) % a) /\ ((-v) % a) \in Int
    <3>1. ((-v) \div a) \in Int /\ (-v) = a * ((-v) \div a) + ((-v) % a) /\ ((-v) % a) \in Int
      OBVIOUS
    <3> QED  BY <3>1
  <2>3. v + ((-v) % a) = 4096 * (k0 * (-d)) /\ k0 * (-d) \in Int
    <3>1. v + ((-v) % a) = -(a * d)
      BY <2>2
    <3>2. a * d = 4096 * (k0 * d)
      BY <2>1, <2>2
    <3> QED  BY <3>1, <3>2
  <2>4. AlignUp(v, a) = 4096 * (k0 * (-d))
    BY <2>3 DEF AlignUp
  <2> QED  BY <2>3, <2>4, ProductMod DEF PAGE_ALIGN
<1> QED  BY <1>2, <1>3

\* No writable section has an address before the first loop ends.
LEMMA InitAlign == Init => AlignInv
BY DEF Init, Start, AlignInv, Classes

\* Each loop keeps the first of them on its page.
LEMMA NextAlign == IInv /\ AlignInv /\ [LayoutNext]_layoutVars => AlignInv'
<1> SUFFICES ASSUME IInv, AlignInv, [LayoutNext]_layoutVars PROVE AlignInv'
  OBVIOUS
<1>1. IsImage(image) /\ cursor \in Nat /\ Ids \subseteq Nat /\ DOMAIN vma \subseteq Ids
      /\ \A i \in DOMAIN vma : vma[i] \in Nat
  BY DEF IInv, TypeOK, Ids
<1>2. CASE Skip
  BY <1>2, ImageSame DEF Skip, AlignInv
<1>3. CASE Assign
  <2>1. PICK at, c : c = k /\ at = AlignUp(cursor, image.secs[c].align)
    OBVIOUS
  <2>2. /\ UNCHANGED <<image, pc>> /\ c \in Ids /\ pc \in Classes /\ Class(c) = pc
        /\ vma' = With(vma, c, at) /\ cursor' = at + Size(c)
    BY <1>3, <2>1 DEF Assign
  <2>3. c \notin DOMAIN vma
    <3>1. c \notin Reached
      BY <1>1, <1>3, <2>1, <2>2, SectionType DEF Reached, Classes
    <3> QED  BY <3>1 DEF IInv, ReachedInv
  <2>4. /\ DOMAIN vma' = DOMAIN vma \cup {c} /\ vma'[c] = at
        /\ \A i \in DOMAIN vma : vma'[i] = vma[i]
    BY <2>2, <2>3 DEF With
  <2>5. Rw' = Rw /\ image.secs[c].align \in Nat \ {0}
    BY <1>1, <2>2, ImageSame, SectionType
  <2>6. at \in Nat /\ cursor <= at
    BY <1>1, <2>1, <2>5, AlignUpIsUp
  <2>7. CASE c \notin Rw
    <3>1. pc = "rx" /\ Rw' \cap DOMAIN vma' = Rw \cap DOMAIN vma
      BY <2>2, <2>4, <2>5, <2>7 DEF Rw
    <3> QED  BY <2>2, <2>4, <2>5, <3>1 DEF AlignInv
  <2>8. CASE c \in Rw /\ Rw \cap DOMAIN vma = {}
    <3>1. cursor % PAGE_ALIGN = 0
      BY <2>2, <2>8 DEF AlignInv, Rw, Classes
    <3>2. PAGE_ALIGN % image.secs[c].align = 0 \/ image.secs[c].align % PAGE_ALIGN = 0
      BY <2>2, AlignAssumption DEF IInv, Ids
    <3>3. at % PAGE_ALIGN = 0
      BY <1>1, <2>1, <2>5, <3>1, <3>2, AlignUpOnPage
    <3>4. Rw' \cap DOMAIN vma' = {c}
      BY <2>4, <2>5, <2>8
    <3> QED  BY <2>4, <2>6, <3>3, <3>4 DEF AlignInv
  <2>9. CASE c \in Rw /\ Rw \cap DOMAIN vma # {}
    <3>1. PICK i \in Rw \cap DOMAIN vma :
            /\ vma[i] % PAGE_ALIGN = 0
            /\ \A j \in Rw \cap DOMAIN vma : vma[i] <= vma[j]
      BY <2>9 DEF AlignInv
    <3>2. vma[i] <= at
      <4>1. Size(i) \in Nat /\ vma[i] \in Nat /\ vma[i] + Size(i) <= cursor
        BY <1>1, <3>1, SectionType DEF IInv, BoundInv, End
      <4> QED  BY <1>1, <2>6, <4>1
    <3>3. i \in Rw' \cap DOMAIN vma' /\ vma'[i] = vma[i]
      BY <2>4, <2>5, <3>1
    <3>4. \A j \in Rw' \cap DOMAIN vma' : vma'[i] <= vma'[j]
      BY <2>4, <2>5, <3>1, <3>2, <3>3
    <3> QED  BY <3>1, <3>3, <3>4 DEF AlignInv
  <2> QED  BY <2>7, <2>8, <2>9
<1>4. CASE EndPass
  <2>1. /\ UNCHANGED <<image, vma>> /\ pc \in Classes /\ pc' = NextPass[pc]
        /\ cursor' = IF pc = "rx" THEN AlignUp(cursor, PAGE_ALIGN) ELSE cursor
    BY <1>4 DEF EndPass
  <2>2. Rw' = Rw
    BY <2>1, ImageSame
  <2>3. pc = "rx" => cursor' % PAGE_ALIGN = 0
    BY <1>1, <2>1, AlignUpToPage
  <2>4. pc # "rx" /\ pc' \in {"rw", "zero"} => pc \in {"rw", "zero"}
    BY <2>1 DEF Classes
  <2> QED  BY <2>1, <2>2, <2>3, <2>4 DEF AlignInv
<1>5. CASE EmitStep \/ Done \/ UNCHANGED layoutVars
  <2>1. UNCHANGED <<image, vma, cursor>> /\ (pc' \in Classes => pc' = pc)
    BY <1>5 DEF EmitStep, PutHeaders, PutSection, EndRx, EndRw, PutTables, Done, layoutVars, Classes
  <2> QED  BY <2>1, ImageSame DEF AlignInv, Classes
<1> QED  BY <1>2, <1>3, <1>4, <1>5 DEF LayoutNext, AssignStep

LEMMA InductiveAlign == LayoutSpec => [](IInv /\ AlignInv)
<1>1. Init => IInv /\ AlignInv
  BY InitInv, InitAlign
<1>2. IInv /\ AlignInv /\ [LayoutNext]_layoutVars => (IInv /\ AlignInv)'
  BY NextInv, NextAlign
<1> QED  BY <1>1, <1>2, PTL DEF LayoutSpec

\* No two sections share memory.
LEMMA SectionsApart ==
  ASSUME Addressed, NEW i \in Ids, NEW j \in Ids, i # j
  PROVE  End(i) <= vma[j] \/ End(j) <= vma[i]
<1>1. IsImage(image) /\ DOMAIN vma = Ids
  BY DEF Addressed
<1>2. Earlier(i, j) \/ Earlier(j, i)
  <2>1. i \in Nat /\ j \in Nat /\ Class(i) \in Classes /\ Class(j) \in Classes
    BY <1>1, SectionType
  <2> QED  BY <2>1 DEF Earlier, Classes
<1> QED  BY <1>1, <1>2 DEF Addressed, OrderInv

\* The bytes of the writable segment end before the sections without any.
LEMMA BytesFirst ==
  ASSUME Addressed
  PROVE  /\ RwVma0 \in Nat /\ RwFileSize \in Nat
         /\ \A i \in Rw : vma[i] \in Nat /\ Size(i) \in Nat /\ RwVma0 <= vma[i]
         /\ \A i \in Rw : Class(i) = "rw" => End(i) - RwVma0 <= RwFileSize
         /\ \A i \in Rw : Class(i) = "zero" => vma[i] - RwVma0 >= RwFileSize
<1>1. /\ IsImage(image) /\ Ids \subseteq Nat /\ vma \in [Ids -> Nat] /\ cursor \in Nat
      /\ DOMAIN vma = Ids
  BY DEF Addressed, Ids
<1>2. ASSUME NEW i \in Ids
      PROVE  /\ vma[i] \in Nat /\ Size(i) \in Nat /\ End(i) \in Nat /\ End(i) = vma[i] + Size(i)
             /\ End(i) <= cursor
  BY <1>1, SectionType DEF Addressed, BoundInv, End
<1>3. RwVma0 \in Nat /\ \A i \in Rw : i \in Ids /\ RwVma0 <= vma[i]
  <2>1. CASE Rw = {}
    BY <2>1 DEF RwVma0
  <2>2. CASE Rw # {}
    <3>1. Rw \in SUBSET Ids
      BY DEF Rw
    <3>2. PICK m \in Rw : m = FirstOf(Rw) /\ \A j \in Rw : Before(m, j)
      BY <1>1, <2>2, <3>1, FirstExists
    <3>3. RwVma0 = vma[m]
      BY <2>2, <3>2 DEF RwVma0
    <3>4. \A i \in Rw : vma[m] \in Nat /\ vma[i] \in Nat /\ Before(m, i)
      BY <1>2, <3>1, <3>2
    <3> QED  BY <3>1, <3>3, <3>4 DEF Before
  <2> QED  BY <2>1, <2>2
<1> DEFINE D == {i \in Ids : Class(i) = "rw"}
<1>4. \A i \in D : i \in Rw /\ i \in Ids /\ End(i) - RwVma0 \in Nat /\ End(i) - RwVma0 <= cursor
  <2>1. \A i \in D : i \in Rw /\ i \in Ids
    BY DEF Rw
  <2> QED  BY <1>1, <1>2, <1>3, <2>1
<1>5. /\ RwFileSize \in Nat /\ \A i \in D : End(i) - RwVma0 <= RwFileSize
      /\ RwFileSize = 0 \/ \E i \in D : RwFileSize = End(i) - RwVma0
  <2>1. Ends = {End(i) - RwVma0 : i \in D}
    BY DEF Ends
  <2> HIDE DEF D
  <2>2. Ends \cup {0} \in SUBSET Nat /\ \A e \in Ends \cup {0} : e <= cursor
    BY <1>1, <1>4, <2>1
  <2>3. \E m \in Ends \cup {0} : \A e \in Ends \cup {0} : e <= m
    BY <1>1, <2>2, Greatest
  <2>4. RwFileSize \in Ends \cup {0} /\ \A e \in Ends \cup {0} : e <= RwFileSize
    BY <2>3, Zenon DEF RwFileSize
  <2> QED  BY <2>1, <2>2, <2>4
<1>6. ASSUME NEW i \in Rw, Class(i) = "zero" PROVE vma[i] - RwVma0 >= RwFileSize
  <2>1. vma[i] \in Nat /\ i \in Ids /\ RwVma0 <= vma[i]
    BY <1>2, <1>3
  <2>2. ASSUME NEW j \in D PROVE End(j) <= vma[i] /\ End(j) \in Nat
    <3>1. Class(j) = "rw" /\ j \in Ids
      OBVIOUS
    <3> QED  BY <1>1, <1>2, <1>6, <2>1, <3>1 DEF Addressed, OrderInv, Earlier
  <2> HIDE DEF D
  <2> QED  BY <1>3, <1>5, <2>1, <2>2
<1> QED  BY <1>2, <1>3, <1>5, <1>6

\* A file offset of the writable segment and its address agree modulo the page
\* size, and sections without bytes in the file come after those with.
LEMMA OffsetsMatch == LayoutSpec => []PagesMatch
<1>1. IInv /\ AlignInv => PagesMatch
  <2> SUFFICES ASSUME IInv, AlignInv, Assigned, Rw # {} PROVE PagesMatch
    BY DEF PagesMatch
  <2>1. Addressed /\ DOMAIN vma = Ids /\ Rw \subseteq Ids /\ vma \in [Ids -> Nat] /\ Ids \subseteq Nat
    BY AssignedIsAddressed DEF IInv, TypeOK, Assigned, Rw, Ids
  <2>2. RwVma0 % PAGE_ALIGN = 0
    <3>1. PICK i \in Rw : vma[i] % PAGE_ALIGN = 0 /\ \A j \in Rw : vma[i] <= vma[j]
      BY <2>1 DEF AlignInv
    <3>2. PICK f \in Rw : f = FirstOf(Rw) /\ \A j \in Rw : Before(f, j)
      BY <2>1, FirstExists
    <3>3. i \in Rw /\ vma[f] \in Nat /\ vma[i] \in Nat /\ vma[i] <= vma[f] /\ Before(f, i)
      BY <2>1, <3>1, <3>2
    <3>4. vma[f] = vma[i]
      BY <3>3 DEF Before
    <3> QED  BY <3>1, <3>2, <3>4 DEF RwVma0
  <2>3. RwOff % PAGE_ALIGN = 0
    BY <2>1, RxSegment, AlignUpToPage DEF RwOff
  <2> QED  BY <2>1, <2>2, <2>3, BytesFirst DEF PagesMatch
<1> QED  BY <1>1, InductiveAlign, PTL

\* Exactly an empty section at the end of a segment hides another one from it:
\* for any sections, sizes and alignments.
LEMMA MappedUnlessHidden == LayoutSpec => []MappedWithoutEmptyTail
<1>1. IInv => MappedWithoutEmptyTail
  <2> SUFFICES ASSUME IInv, Assigned PROVE Mapped <=> ~EmptyTail
    BY DEF MappedWithoutEmptyTail
  <2>1. /\ Addressed /\ IsImage(image) /\ DOMAIN vma = Ids /\ Rw \in SUBSET Ids /\ vma \in [Ids -> Nat]
        /\ Ids \subseteq Nat /\ cursor \in Nat /\ image.n \in Nat /\ \A i \in Ids : i <= image.n
    BY AssignedIsAddressed DEF IInv, TypeOK, Assigned, Rw, Ids, IsImage
  <2>2. ASSUME NEW i \in Ids
        PROVE  /\ vma[i] \in Nat /\ Size(i) \in Nat /\ End(i) \in Nat /\ End(i) = vma[i] + Size(i)
               /\ vma[i] <= cursor /\ Class(i) \in Classes
    BY <2>1, SectionType DEF Addressed, BoundInv, End
  <2> DEFINE m == LastOf(Rw)
  <2>3. Rw # {} => m \in Rw /\ (\A j \in Rw : Before(j, m)) /\ RwEnd = End(m)
    <3> HAVE Rw # {}
    <3>1. \A i \in Rw : vma[i] <= cursor /\ i <= image.n
      BY <2>1, <2>2
    <3>2. m \in Rw /\ \A j \in Rw : Before(j, m)
      BY <2>1, <3>1, LastExists
    <3> QED  BY <3>2 DEF RwEnd
  <2> HIDE DEF m
  <2>4. /\ RwVma0 \in Nat /\ RwFileSize \in Nat
        /\ \A i \in Rw : vma[i] \in Nat /\ Size(i) \in Nat /\ RwVma0 <= vma[i]
        /\ \A i \in Rw : Class(i) = "rw" => End(i) - RwVma0 <= RwFileSize
        /\ \A i \in Rw : Class(i) = "zero" => vma[i] - RwVma0 >= RwFileSize
    BY <2>1, BytesFirst
  <2>5. ASSUME EmptyTail PROVE ~Mapped
    <3>1. PICK i \in Rw \ Named({".tbss"}), j \in Rw :
            /\ i < j /\ Class(i) = "zero" /\ Size(i) # 0 /\ Size(j) = 0
            /\ vma[i] = vma[j] /\ \A other \in Rw : vma[other] <= vma[j]
      BY <2>5 DEF EmptyTail
    <3>2. i \in Ids /\ j \in Ids /\ m \in Ids /\ m \in Rw
      BY <2>1, <2>3, <3>1
    <3>3. vma[m] = vma[i] /\ j <= m
      BY <2>2, <2>3, <3>1, <3>2 DEF Before
    <3>4. i # m
      BY <2>1, <3>1, <3>2, <3>3
    <3>5. End(m) <= vma[i]
      BY <2>1, <2>2, <3>1, <3>2, <3>3, <3>4, SectionsApart
    <3>6. RwEnd <= vma[i] /\ RwEnd \in Nat
      BY <2>2, <2>3, <3>1, <3>2, <3>5
    <3>7. RwVma0 + RwMemSize <= vma[i]
      BY <2>2, <2>4, <3>1, <3>2, <3>6 DEF RwMemSize
    <3>8. ~InSegment(i)
      <4>1. RwMemSize \in Int
        BY <2>4, <3>6 DEF RwMemSize
      <4> QED  BY <2>2, <2>4, <3>1, <3>2, <3>7, <4>1 DEF InSegment
    <3> QED  BY <3>1, <3>2, <3>8 DEF Mapped
  <2>6. ASSUME ~EmptyTail, NEW i \in Ids \ Named({".tbss"}), Size(i) # 0 PROVE InSegment(i)
    <3>1. CASE Class(i) = "rx"
      <4>1. i \in Rx /\ Offset(i) + Size(i) <= RxFileSize /\ Offset(i) = vma[i] - image.base
        BY <2>1, <3>1, RxSegment DEF Rx, Offset
      <4>2. RxFileSize = RxEnd - image.base /\ image.base \in Nat /\ RxEnd \in Int
        <5>1. CASE Rx = {}
          BY <4>1, <5>1
        <5>2. CASE Rx # {}
          <6>1. Rx \in SUBSET Ids /\ \A j \in Rx : vma[j] <= cursor /\ j <= image.n
            BY <2>1, <2>2 DEF Rx
          <6>2. PICK l \in Rx : l = LastOf(Rx)
            BY <2>1, <5>2, <6>1, LastExists
          <6>3. RxEnd = End(l) /\ End(l) \in Nat /\ image.base \in Nat
            BY <2>1, <2>2, <5>2, <6>1, <6>2 DEF RxEnd, IsImage
          <6> QED  BY <6>3 DEF RxFileSize
        <5> QED  BY <5>1, <5>2
      <4> QED  BY <2>2, <3>1, <4>1, <4>2 DEF InSegment
    <3>2. CASE Class(i) # "rx"
      <4>1. i \in Rw /\ m \in Rw /\ m \in Ids /\ RwEnd = End(m) /\ Before(i, m)
        BY <2>1, <2>3, <3>2 DEF Rw
      <4>2. End(m) \in Nat /\ RwMemSize \in Int
            /\ RwFileSize <= RwMemSize /\ End(m) - RwVma0 <= RwMemSize
        BY <2>2, <2>4, <4>1 DEF RwMemSize
      <4>3. End(i) <= RwVma0 + RwMemSize
        <5>1. CASE Class(i) = "rw"
          BY <2>2, <2>4, <4>1, <4>2, <5>1
        <5>2. CASE End(i) <= End(m)
          BY <2>2, <2>4, <4>1, <4>2, <5>2
        <5>3. CASE Class(i) = "zero" /\ End(m) < End(i)
          <6>1. i # m
            BY <2>2, <4>1, <5>3
          <6>2. End(m) <= vma[i]
            BY <2>1, <2>2, <4>1, <5>3, <6>1, SectionsApart
          <6>3. vma[i] = vma[m] /\ i <= m /\ Size(m) = 0
            BY <2>2, <4>1, <6>2 DEF Before
          <6>4. i < m
            BY <2>1, <4>1, <6>1, <6>3
          <6>5. \A other \in Rw : vma[other] <= vma[m]
            BY <2>1, <2>2, <2>3, <4>1 DEF Before
          <6>6. i \in Rw \ Named({".tbss"})
            BY <4>1
          <6> QED  BY <2>6, <4>1, <5>3, <6>3, <6>4, <6>5, <6>6 DEF EmptyTail
        <5> QED  BY <2>2, <3>2, <4>1, <5>1, <5>2, <5>3 DEF Classes
      <4> QED  BY <3>2, <4>3 DEF InSegment
    <3> QED  BY <3>1, <3>2
  <2> QED  BY <2>5, <2>6 DEF Mapped, InSegment
<1> QED  BY <1>1, Inductive, PTL

\* The program headers map every section that an empty tail does not hide, at
\* the bytes its header says, for any sections and alignments.
THEOREM CanBeMapped == LayoutSpec => []Loadable
BY OffsetsMatch, MappedUnlessHidden, PTL DEF Loadable
-----------------------------------------------------------------------------
(***************************************************************************)
(* LinkImage.                                                              *)
(***************************************************************************)

\* What holds of 0 and passes from each number to the next holds up to n.
LEMMA CountUp ==
  ASSUME NEW n \in Nat, NEW S, 0 \in S, \A i \in 1..n : i - 1 \in S => i \in S
  PROVE  \A i \in 0..n : i \in S
<1> DEFINE T == (0..n) \ S
<1> SUFFICES ASSUME T # {} PROVE FALSE
  OBVIOUS
<1>1. PICK m \in T : \A x \in T : m <= x
  <2>1. T \in SUBSET Nat
    OBVIOUS
  <2> HIDE DEF T
  <2> QED  BY <2>1, Least
<1>2. m \in 1..n /\ m - 1 \notin T
  BY <1>1
<1> QED  BY <1>1, <1>2
-----------------------------------------------------------------------------
(***************************************************************************)
(* Chosen.                                                                 *)
(***************************************************************************)

\* One element more or not.
Unfolds(f, s, S) ==
  f = [i \in 0..Len(s) |->
         IF i = 0 THEN <<>> ELSE IF i \in S THEN Append(f[i - 1], s[i]) ELSE f[i - 1]]

\* The recursion has a solution up to any place.
Solves(f, n, s, S, V) ==
  /\ f \in [0..n -> Seq(V)] /\ f[0] = <<>>
  /\ \A i \in 1..n : f[i] = IF i \in S THEN Append(f[i - 1], s[i]) ELSE f[i - 1]

LEMMA ChosenSolves ==
  ASSUME NEW V, NEW s \in Seq(V), NEW S
  PROVE  \E f : Solves(f, Len(s), s, S, V) /\ Chosen(s, S) = f[Len(s)]
<1> DEFINE n == Len(s)
           R == {m \in 0..n : \E h : Solves(h, m, s, S, V)}
<1>1. n \in Nat /\ \A i \in 1..n : s[i] \in V
  OBVIOUS
<1>2. 0 \in R
  <2>1. Solves([i \in 0..0 |-> <<>>], 0, s, S, V)
    BY DEF Solves
  <2> QED  BY <1>1, <2>1
<1>3. ASSUME NEW m \in 1..n, m - 1 \in R PROVE m \in R
  <2>1. PICK h : Solves(h, m - 1, s, S, V)
    BY <1>3
  <2> DEFINE x == IF m \in S THEN Append(h[m - 1], s[m]) ELSE h[m - 1]
             g == [i \in 0..m |-> IF i = m THEN x ELSE h[i]]
  <2>2. m \in Nat /\ m - 1 \in 0..(m - 1) /\ h[m - 1] \in Seq(V) /\ x \in Seq(V)
    BY <1>1, <2>1 DEF Solves
  <2>3. g[m] = x /\ \A i \in 0..(m - 1) : g[i] = h[i]
    BY <2>2
  <2>4. g \in [0..m -> Seq(V)] /\ g[0] = <<>>
    BY <2>1, <2>2 DEF Solves
  <2>5. ASSUME NEW i \in 1..m PROVE g[i] = IF i \in S THEN Append(g[i - 1], s[i]) ELSE g[i - 1]
    <3> HIDE DEF g
    <3>1. CASE i = m
      BY <2>2, <2>3, <3>1
    <3>2. CASE i # m
      <4>1. i \in 1..(m - 1) /\ i \in 0..(m - 1) /\ i - 1 \in 0..(m - 1)
        BY <2>2, <3>2
      <4> QED  BY <2>1, <2>3, <4>1 DEF Solves
    <3> QED  BY <3>1, <3>2
  <2> HIDE DEF g
  <2>6. Solves(g, m, s, S, V)
    BY <2>4, <2>5 DEF Solves
  <2> QED  BY <1>1, <2>6
<1>4. PICK h : Solves(h, n, s, S, V)
  <2> HIDE DEF R
  <2>1. \A i \in 0..n : i \in R
    BY <1>1, <1>2, <1>3, CountUp
  <2> USE DEF R
  <2> QED  BY <1>1, <2>1
<1>5. Unfolds(h, s, S)
  <2>1. h = [i \in 0..Len(s) |-> h[i]]
    BY <1>4 DEF Solves
  <2>2. \A i \in 0..Len(s) : i # 0 => i \in 1..n
    BY <1>1
  <2> QED  BY <1>4, <2>1, <2>2 DEF Unfolds, Solves
<1> DEFINE f == CHOOSE f : Unfolds(f, s, S)
<1>6. Chosen(s, S) = f[Len(s)]
  BY DEF Chosen, Unfolds
<1>7. Unfolds(f, s, S)
  BY <1>5
<1> HIDE DEF f
<1>8. Solves(f, n, s, S, V)
  <2> DEFINE Q == {i \in 0..n : f[i] = h[i]}
  <2>1. 0 \in Q
    BY <1>1, <1>4, <1>7 DEF Unfolds, Solves
  <2>2. ASSUME NEW i \in 1..n, i - 1 \in Q PROVE i \in Q
    <3>1. i \in 0..Len(s) /\ i # 0 /\ f[i - 1] = h[i - 1]
      BY <1>1, <2>2
    <3>2. f[i] = IF i \in S THEN Append(f[i - 1], s[i]) ELSE f[i - 1]
      BY <1>7, <3>1 DEF Unfolds
    <3> QED  BY <1>4, <3>1, <3>2 DEF Solves
  <2>3. \A i \in 0..n : i \in Q
    <3> HIDE DEF Q, n
    <3> QED  BY <1>1, <2>1, <2>2, CountUp
  <2>4. f = h
    <3>1. f = [i \in 0..n |-> f[i]] /\ h = [i \in 0..n |-> h[i]]
      BY <1>4, <1>7 DEF Unfolds, Solves
    <3> QED  BY <2>3, <3>1
  <2> QED  BY <1>4, <2>4
<1> QED  BY <1>6, <1>8

\* c has the elements at the places of S up to n, and each once.
Takes(c, n, s, S, V) ==
  /\ c \in Seq(V)
  /\ \A i \in (1..n) \cap S : \E j \in 1..Len(c) : c[j] = s[i]
  /\ \A j \in 1..Len(c) : \E i \in (1..n) \cap S : c[j] = s[i]

Once(c, s) ==
  (\A i, j \in DOMAIN s : s[i] = s[j] => i = j) => \A i, j \in 1..Len(c) : c[i] = c[j] => i = j

\* Chosen takes the elements at the places, and each once.
LEMMA ChosenTakes ==
  ASSUME NEW V, NEW s \in Seq(V), NEW S
  PROVE  /\ Chosen(s, S) \in Seq(V)
         /\ \A i \in DOMAIN s \cap S : \E j \in DOMAIN Chosen(s, S) : Chosen(s, S)[j] = s[i]
         /\ \A j \in DOMAIN Chosen(s, S) : \E i \in DOMAIN s \cap S : Chosen(s, S)[j] = s[i]
         /\ (\A i, j \in DOMAIN s : s[i] = s[j] => i = j)
              => \A i, j \in DOMAIN Chosen(s, S) : Chosen(s, S)[i] = Chosen(s, S)[j] => i = j
<1>1. Len(s) \in Nat /\ DOMAIN s = 1..Len(s) /\ \A i \in 1..Len(s) : s[i] \in V
  OBVIOUS
<1>2. PICK f : Solves(f, Len(s), s, S, V) /\ Chosen(s, S) = f[Len(s)]
  BY ChosenSolves
<1> DEFINE T == {n \in 0..Len(s) : Takes(f[n], n, s, S, V) /\ Once(f[n], s)}
<1>3. 0 \in T
  <2>1. f[0] = <<>> /\ Len(<<>>) = 0 /\ 0 \in 0..Len(s)
    BY <1>1, <1>2 DEF Solves
  <2>2. <<>> \in Seq(V) /\ 1..0 = {}
    OBVIOUS
  <2>3. Takes(<<>>, 0, s, S, V) /\ Once(<<>>, s)
    BY <2>1, <2>2 DEF Takes, Once
  <2> QED  BY <2>1, <2>3
<1>4. ASSUME NEW n \in 1..Len(s), n - 1 \in T PROVE n \in T
  <2> DEFINE c == f[n - 1]
             d == Append(c, s[n])
  <2>1. Takes(c, n - 1, s, S, V) /\ Once(c, s) /\ n \in Nat /\ n >= 1 /\ n \in 0..Len(s)
    BY <1>1, <1>4
  <2>2. f[n] = IF n \in S THEN d ELSE c
    BY <1>2 DEF Solves
  <2>3. CASE n \notin S
    <3>1. (1..n) \cap S = (1..(n - 1)) \cap S
      BY <2>1, <2>3
    <3>2. Takes(c, n, s, S, V)
      BY <2>1, <3>1 DEF Takes
    <3> QED  BY <2>1, <2>2, <2>3, <3>2
  <2>4. CASE n \in S
    <3> HIDE DEF c
    <3>1. c \in Seq(V) /\ s[n] \in V /\ Len(c) \in Nat
      BY <1>1, <2>1 DEF Takes
    <3>2. /\ d \in Seq(V) /\ Len(d) = Len(c) + 1 /\ d[Len(c) + 1] = s[n]
          /\ \A j \in 1..Len(c) : d[j] = c[j]
      BY <3>1
    <3> HIDE DEF d
    <3>3. 1..Len(d) = (1..Len(c)) \cup {Len(c) + 1} /\ 1..n = (1..(n - 1)) \cup {n}
      BY <2>1, <3>1, <3>2
    <3>4. ASSUME NEW i \in (1..n) \cap S PROVE \E j \in 1..Len(d) : d[j] = s[i]
      <4>1. CASE i = n
        BY <3>2, <3>3, <4>1
      <4>2. CASE i # n
        <5>1. i \in (1..(n - 1)) \cap S
          BY <3>3, <4>2
        <5> QED  BY <2>1, <3>2, <3>3, <5>1 DEF Takes
      <4> QED  BY <4>1, <4>2
    <3>5. ASSUME NEW j \in 1..Len(d) PROVE \E i \in (1..n) \cap S : d[j] = s[i]
      <4>1. CASE j = Len(c) + 1
        <5>1. n \in (1..n) \cap S
          BY <2>1, <2>4
        <5> QED  BY <3>2, <4>1, <5>1
      <4>2. CASE j \in 1..Len(c)
        BY SMTT(30), <2>1, <3>2, <3>3, <4>2 DEF Takes
      <4> QED  BY <3>3, <4>1, <4>2
    <3>6. Once(d, s)
      <4> SUFFICES ASSUME \A i, j \in DOMAIN s : s[i] = s[j] => i = j,
                          NEW i \in 1..Len(d), NEW j \in 1..Len(d), d[i] = d[j]
                   PROVE  i = j
        BY DEF Once
      <4>1. \A x \in 1..Len(c) : c[x] # s[n]
        <5> SUFFICES ASSUME NEW x \in 1..Len(c), c[x] = s[n] PROVE FALSE
          OBVIOUS
        <5>1. PICK y \in (1..(n - 1)) \cap S : c[x] = s[y]
          BY <2>1 DEF Takes
        <5>2. y \in DOMAIN s /\ n \in DOMAIN s /\ y # n
          BY <1>1, <2>1
        <5> QED  BY <5>1, <5>2
      <4>2. CASE i = Len(c) + 1
        BY <3>2, <3>3, <4>1, <4>2
      <4>3. CASE j = Len(c) + 1
        BY <3>2, <3>3, <4>1, <4>3
      <4>4. CASE i \in 1..Len(c) /\ j \in 1..Len(c)
        BY <2>1, <3>2, <4>4 DEF Once
      <4> QED  BY <3>3, <4>2, <4>3, <4>4
    <3>7. Takes(d, n, s, S, V)
      BY <3>2, <3>4, <3>5 DEF Takes
    <3> QED  BY <2>1, <2>2, <2>4, <3>6, <3>7
  <2> QED  BY <2>3, <2>4
<1>5. Len(s) \in T
  <2> HIDE DEF T
  <2>1. \A n \in 0..Len(s) : n \in T
    BY <1>1, <1>3, <1>4, CountUp
  <2> QED  BY <1>1, <2>1
<1>6. Takes(Chosen(s, S), Len(s), s, S, V) /\ Once(Chosen(s, S), s)
  BY <1>2, <1>5
<1>7. DOMAIN Chosen(s, S) = 1..Len(Chosen(s, S))
  BY <1>6 DEF Takes
<1> QED  BY <1>1, <1>6, <1>7 DEF Takes, Once
-----------------------------------------------------------------------------
(***************************************************************************)
(* Links and their images.                                                 *)
(***************************************************************************)

LEMMA LinkFacts ==
  ASSUME NEW l \in Links
  PROVE  /\ IsLink(l) /\ Skeleton(l) \in Images /\ IsImage(Skeleton(l))
         /\ l.outputs \in Seq(Section) /\ l.syms \in Seq(Symbol) /\ l.relocs \in Seq(Reloc)
         /\ l.imports \in Seq(STRING) /\ l.needed \in Nat /\ l.soname \in BOOLEAN
<1>1. IsLink(l)
  BY LinksAssumption
<1>2. Skeleton(l) \in Images
  BY SkeletonsAssumption
<1>3. IsImage(Skeleton(l))
  BY <1>2, ImagesAssumption
<1> QED  BY <1>1, <1>2, <1>3 DEF IsLink

\* The exports and the relocations of the loader.
LEMMA ExportsType ==
  ASSUME NEW l \in Links
  PROVE  /\ Exports(l) \in Seq(Symbol) /\ RelativeSites(l) \in Seq(Reloc)
         /\ Len(Exports(l)) \in Nat /\ Len(RelativeSites(l)) \in Nat /\ Len(l.imports) \in Nat
<1>1. l.syms \in Seq(Symbol) /\ l.relocs \in Seq(Reloc) /\ l.imports \in Seq(STRING)
  BY LinkFacts
<1>2. Exports(l) \in Seq(Symbol)
  BY <1>1, ChosenTakes DEF Exports
<1>3. RelativeSites(l) \in Seq(Reloc)
  BY <1>1, ChosenTakes DEF RelativeSites
<1> QED  BY <1>1, <1>2, <1>3

\* One sequence after another.
LEMMA Concat ==
  ASSUME NEW S, NEW T, NEW s \in Seq(S), NEW t \in Seq(T)
  PROVE  /\ s \o t \in Seq(S \cup T) /\ Len(s \o t) = Len(s) + Len(t)
         /\ Len(s) \in Nat /\ Len(t) \in Nat
         /\ \A i \in 1..Len(s) : (s \o t)[i] = s[i]
         /\ \A i \in 1..Len(t) : (s \o t)[Len(s) + i] = t[i]
<1>1. s \in Seq(S \cup T) /\ t \in Seq(S \cup T)
  OBVIOUS
<1> QED  BY <1>1

\* The sections of an image: first the regular ones, then the dynamic ones.
LEMMA SkeletonSections ==
  ASSUME NEW l \in Links
  PROVE  /\ Len(Regular(l)) \in Nat /\ Len(l.outputs) \in Nat /\ Len(DynamicSections(l)) \in Nat
         /\ \A i \in 1..Len(l.outputs) : i \in 1..Len(Regular(l)) /\ Regular(l)[i] = l.outputs[i]
         /\ \A i \in 1..Len(Regular(l)) : i > Len(l.outputs) => Regular(l)[i].name = ".got.tls"
         /\ Skeleton(l).n = Len(Regular(l)) + Len(DynamicSections(l))
         /\ \A i \in 1..Len(Regular(l)) : Skeleton(l).secs[i] = Regular(l)[i]
         /\ \A i \in 1..Len(DynamicSections(l)) : Skeleton(l).secs[Len(Regular(l)) + i] = DynamicSections(l)[i]
<1>1. l.outputs \in Seq(Section)
  BY LinkFacts
<1>2. PICK g : /\ g = Sized(".got.tls", "rx", 8 * Len(GotTlsSyms(l)), 8)
               /\ GotTls(l) = <<>> \/ GotTls(l) = <<g>>
  BY DEF GotTls
<1>3. g.name = ".got.tls"
  BY <1>2 DEF Sized
<1>4. GotTls(l) \in Seq({g}) /\ \A i \in 1..Len(GotTls(l)) : GotTls(l)[i] = g
  <2>1. CASE GotTls(l) = <<>>
    BY <2>1
  <2>2. CASE GotTls(l) = <<g>>
    BY <2>2
  <2> QED  BY <1>2, <2>1, <2>2
<1>5. /\ Regular(l) \in Seq(Section \cup {g}) /\ Len(Regular(l)) = Len(l.outputs) + Len(GotTls(l))
      /\ Len(l.outputs) \in Nat /\ Len(GotTls(l)) \in Nat
      /\ \A i \in 1..Len(l.outputs) : Regular(l)[i] = l.outputs[i]
      /\ \A i \in 1..Len(GotTls(l)) : Regular(l)[Len(l.outputs) + i] = GotTls(l)[i]
  BY <1>1, <1>4, Concat DEF Regular
<1>6. PICK D : DynamicSections(l) \in Seq(D)
  <2>1. CASE ~HasDynamic(l)
    <3>1. DynamicSections(l) \in Seq({})
      BY <2>1 DEF DynamicSections
    <3> QED  BY <3>1
  <2>2. CASE HasDynamic(l)
    <3>1. PICK a, b, c, d, e, f, m, n : DynamicSections(l) = <<a, b, c, d, e, f, m, n>>
      BY <2>2 DEF DynamicSections
    <3>2. DynamicSections(l) \in Seq({a, b, c, d, e, f, m, n})
      BY <3>1
    <3> QED  BY <3>2
  <2> QED  BY <2>1, <2>2
<1>7. /\ Skeleton(l).n = Len(Regular(l) \o DynamicSections(l))
      /\ Skeleton(l).secs = Regular(l) \o DynamicSections(l)
  BY DEF Skeleton
<1>8. /\ Skeleton(l).n = Len(Regular(l)) + Len(DynamicSections(l))
      /\ Len(Regular(l)) \in Nat /\ Len(DynamicSections(l)) \in Nat
      /\ \A i \in 1..Len(Regular(l)) : Skeleton(l).secs[i] = Regular(l)[i]
      /\ \A i \in 1..Len(DynamicSections(l)) : Skeleton(l).secs[Len(Regular(l)) + i] = DynamicSections(l)[i]
  <2> DEFINE a == Regular(l)
             b == DynamicSections(l)
  <2>1. a \in Seq(Section \cup {g}) /\ b \in Seq(D)
    BY <1>5, <1>6
  <2> HIDE DEF a, b
  <2>2. /\ Len(a \o b) = Len(a) + Len(b) /\ Len(a) \in Nat /\ Len(b) \in Nat
        /\ \A i \in 1..Len(a) : (a \o b)[i] = a[i]
        /\ \A i \in 1..Len(b) : (a \o b)[Len(a) + i] = b[i]
    BY <2>1, Concat
  <2> QED  BY <1>7, <2>2 DEF a, b
<1>9. ASSUME NEW i \in 1..Len(Regular(l)), i > Len(l.outputs) PROVE Regular(l)[i].name = ".got.tls"
  <2>1. i - Len(l.outputs) \in 1..Len(GotTls(l)) /\ i = Len(l.outputs) + (i - Len(l.outputs))
    <3>1. PICK a \in Nat, b \in Nat : a = Len(l.outputs) /\ b = Len(GotTls(l)) /\ Len(Regular(l)) = a + b
      BY <1>5
    <3>2. i \in 1..(a + b) /\ i > a
      BY <1>9, <3>1
    <3>3. i - a \in 1..b /\ i = a + (i - a)
      BY <3>2
    <3> QED  BY <3>1, <3>3
  <2>2. Regular(l)[i] = g
    BY <1>4, <1>5, <2>1
  <2> QED  BY <1>3, <2>2
<1>10. \A i \in 1..Len(l.outputs) : i \in 1..Len(Regular(l))
  BY <1>5
<1> QED  BY <1>5, <1>8, <1>9, <1>10

\* The entries build_dynamic_section makes are those that were counted.
LEMMA TagsCounted ==
  ASSUME link \in Links
  PROVE  Len(DynamicTags) = DynamicEntryCount(link)
<1> DEFINE N == [i \in 1..link.needed |-> "NEEDED"]
           S == IF link.soname THEN <<"SONAME">> ELSE <<>>
           T == <<"HASH", "STRTAB", "SYMTAB", "STRSZ", "SYMENT">>
           P == IF link.imports # <<>> THEN <<"PLTGOT", "PLTRELSZ", "PLTREL", "JMPREL">> ELSE <<>>
           R == IF RelativeSites(link) # <<>> THEN <<"RELA", "RELASZ", "RELAENT">> ELSE <<>>
           F == <<"FLAGS", "NULL">>
           V == {"NEEDED", "SONAME", "HASH", "STRTAB", "SYMTAB", "STRSZ", "SYMENT",
                 "PLTGOT", "PLTRELSZ", "PLTREL", "JMPREL", "RELA", "RELASZ", "RELAENT", "FLAGS", "NULL"}
<1>1. N \in Seq(V) /\ Len(N) = link.needed /\ link.needed \in Nat
  <2>1. link.needed \in Nat
    BY LinkFacts
  <2> QED  BY <2>1
<1>2. S \in Seq(V) /\ Len(S) = Count(link.soname)
  <2>1. CASE link.soname
    BY <2>1 DEF Count
  <2>2. CASE ~link.soname
    BY <2>2 DEF Count
  <2> QED  BY <2>1, <2>2
<1>3. T \in Seq(V) /\ Len(T) = 5
  OBVIOUS
<1>4. P \in Seq(V) /\ Len(P) = 4 * Count(link.imports # <<>>)
  <2>1. CASE link.imports # <<>>
    BY <2>1 DEF Count
  <2>2. CASE link.imports = <<>>
    BY <2>2 DEF Count
  <2> QED  BY <2>1, <2>2
<1>5. R \in Seq(V) /\ Len(R) = 3 * Count(RelativeSites(link) # <<>>)
  <2>1. CASE RelativeSites(link) # <<>>
    BY <2>1 DEF Count
  <2>2. CASE RelativeSites(link) = <<>>
    BY <2>2 DEF Count
  <2> QED  BY <2>1, <2>2
<1>6. F \in Seq(V) /\ Len(F) = 2
  OBVIOUS
<1>7. DynamicTags = N \o S \o T \o P \o R \o F
  BY DEF DynamicTags
<1> HIDE DEF N, S, T, P, R, F, V
<1>8. Len(N \o S \o T \o P \o R \o F) = Len(N) + Len(S) + Len(T) + Len(P) + Len(R) + Len(F)
  <2>1. ASSUME NEW a \in Seq(V), NEW b \in Seq(V)
        PROVE  a \o b \in Seq(V) /\ Len(a \o b) = Len(a) + Len(b) /\ Len(a) \in Nat /\ Len(b) \in Nat
    OBVIOUS
  <2>2. N \o S \in Seq(V) /\ Len(N \o S) = Len(N) + Len(S)
    BY <1>1, <1>2, <2>1
  <2>3. N \o S \o T \in Seq(V) /\ Len(N \o S \o T) = Len(N \o S) + Len(T)
    BY <1>3, <2>1, <2>2
  <2>4. N \o S \o T \o P \in Seq(V) /\ Len(N \o S \o T \o P) = Len(N \o S \o T) + Len(P)
    BY <1>4, <2>1, <2>3
  <2>5. N \o S \o T \o P \o R \in Seq(V) /\ Len(N \o S \o T \o P \o R) = Len(N \o S \o T \o P) + Len(R)
    BY <1>5, <2>1, <2>4
  <2>6. Len(N \o S \o T \o P \o R \o F) = Len(N \o S \o T \o P \o R) + Len(F)
    BY <1>6, <2>1, <2>5
  <2> QED  BY <2>2, <2>3, <2>4, <2>5, <2>6
<1>9. /\ Count(link.soname) \in Nat /\ Count(link.imports # <<>>) \in Nat
      /\ Count(RelativeSites(link) # <<>>) \in Nat
  BY DEF Count
<1> QED  BY <1>1, <1>2, <1>3, <1>4, <1>5, <1>6, <1>7, <1>8, <1>9 DEF DynamicEntryCount

\* The dynamic sections.
LEMMA DynamicOnes ==
  ASSUME NEW l \in Links, NEW d \in 1..Len(DynamicSections(l))
  PROVE  \/ DynamicSections(l)[d] = Sized(".hash", "rx", HashSize(l), 8)
         \/ DynamicSections(l)[d] = Sized(".dynsym", "rx", 24 * (Len(DynNames(l)) + 1), 8)
         \/ DynamicSections(l)[d] = Sized(".dynstr", "rx", l.strings, 1)
         \/ DynamicSections(l)[d] = Sized(".rela.dyn", "rx", 24 * Len(RelativeSites(l)), 8)
         \/ DynamicSections(l)[d] = Sized(".rela.plt", "rx", 24 * Len(l.imports), 8)
         \/ DynamicSections(l)[d] = Sized(".plt", "rx", 16 * Len(l.imports), 16)
         \/ DynamicSections(l)[d] = Sized(".got.plt", "rw", 8 * Len(l.imports), 8)
         \/ DynamicSections(l)[d] = Sized(".dynamic", "rw", 16 * DynamicEntryCount(l), 8)
<1> DEFINE D == <<Sized(".hash", "rx", HashSize(l), 8),
                  Sized(".dynsym", "rx", 24 * (Len(DynNames(l)) + 1), 8),
                  Sized(".dynstr", "rx", l.strings, 1),
                  Sized(".rela.dyn", "rx", 24 * Len(RelativeSites(l)), 8),
                  Sized(".rela.plt", "rx", 24 * Len(l.imports), 8),
                  Sized(".plt", "rx", 16 * Len(l.imports), 16),
                  Sized(".got.plt", "rw", 8 * Len(l.imports), 8),
                  Sized(".dynamic", "rw", 16 * DynamicEntryCount(l), 8)>>
<1>1. HasDynamic(l)
  BY DEF DynamicSections
<1>2. DynamicSections(l) = D
  BY <1>1 DEF DynamicSections
<1>3. d \in 1..8
  BY <1>2
<1>4. d \in {1, 2, 3, 4, 5, 6, 7, 8}
  BY <1>3
<1>5. /\ D[1] = Sized(".hash", "rx", HashSize(l), 8)
      /\ D[2] = Sized(".dynsym", "rx", 24 * (Len(DynNames(l)) + 1), 8)
      /\ D[3] = Sized(".dynstr", "rx", l.strings, 1)
      /\ D[4] = Sized(".rela.dyn", "rx", 24 * Len(RelativeSites(l)), 8)
      /\ D[5] = Sized(".rela.plt", "rx", 24 * Len(l.imports), 8)
      /\ D[6] = Sized(".plt", "rx", 16 * Len(l.imports), 16)
      /\ D[7] = Sized(".got.plt", "rw", 8 * Len(l.imports), 8)
      /\ D[8] = Sized(".dynamic", "rw", 16 * DynamicEntryCount(l), 8)
  OBVIOUS
<1> HIDE DEF D
<1> QED  BY <1>2, <1>4, <1>5, Zenon

\* Rebuilding the dynamic sections changes no size.
LEMMA SameSizes ==
  ASSUME link \in Links, image = Skeleton(link), NEW i \in Ids
  PROVE  Resized(i) = image.secs[i]
<1> SUFFICES ASSUME i > Len(Regular(link)), image.secs[i].name \in DOMAIN Rebuilt
             PROVE  Rebuilt[image.secs[i].name] = image.secs[i].size /\ image.secs[i] \in Section
  BY DEF Resized, Section
<1>1. image.secs[i] \in Section
  BY LinkFacts DEF IsImage, Ids
<1>2. PICK d \in 1..Len(DynamicSections(link)) : image.secs[i] = DynamicSections(link)[d]
  <2> DEFINE d == i - Len(Regular(link))
  <2>1. /\ i \in 1..Skeleton(link).n /\ Len(Regular(link)) \in Nat /\ Len(DynamicSections(link)) \in Nat
        /\ Skeleton(link).n = Len(Regular(link)) + Len(DynamicSections(link))
    BY SkeletonSections DEF Ids
  <2>2. d \in 1..Len(DynamicSections(link)) /\ i = Len(Regular(link)) + d
    BY <2>1
  <2>3. image.secs[i] = DynamicSections(link)[d]
    BY <2>2, SkeletonSections
  <2> QED  BY <2>2, <2>3
<1>3. \/ image.secs[i] = Sized(".hash", "rx", HashSize(link), 8)
      \/ image.secs[i] = Sized(".dynsym", "rx", 24 * (Len(DynNames(link)) + 1), 8)
      \/ image.secs[i] = Sized(".dynstr", "rx", link.strings, 1)
      \/ image.secs[i] = Sized(".rela.dyn", "rx", 24 * Len(RelativeSites(link)), 8)
      \/ image.secs[i] = Sized(".rela.plt", "rx", 24 * Len(link.imports), 8)
      \/ image.secs[i] = Sized(".plt", "rx", 16 * Len(link.imports), 16)
      \/ image.secs[i] = Sized(".got.plt", "rw", 8 * Len(link.imports), 8)
      \/ image.secs[i] = Sized(".dynamic", "rw", 16 * DynamicEntryCount(link), 8)
  BY <1>2, DynamicOnes
<1>4. /\ DOMAIN Rebuilt = {".plt", ".rela.plt", ".rela.dyn", ".dynamic"}
      /\ Rebuilt[".plt"] = 16 * Len(link.imports)
      /\ Rebuilt[".rela.plt"] = 24 * Len(link.imports)
      /\ Rebuilt[".rela.dyn"] = 24 * Len(RelativeSites(link))
      /\ Rebuilt[".dynamic"] = 16 * DynamicEntryCount(link)
  BY TagsCounted DEF Rebuilt
<1> QED  BY SMTT(30), <1>1, <1>3, <1>4 DEF Sized
-----------------------------------------------------------------------------
(***************************************************************************)
(* One layout.                                                             *)
(***************************************************************************)

ImageInv == link \in Links /\ image = Skeleton(link)

LEMMA PatchedImage == ImageInv /\ PatchDynamic => image' = image
<1>1. ASSUME ImageInv PROVE [i \in Ids |-> Resized(i)] = image.secs
  <2>1. image.secs \in [Ids -> Section]
    BY <1>1, LinkFacts DEF ImageInv, IsImage, Ids
  <2>2. \A i \in Ids : Resized(i) = image.secs[i]
    BY <1>1, SameSizes DEF ImageInv
  <2> QED  BY <2>1, <2>2
<1>2. ASSUME ImageInv
      PROVE  \E n, secs, base, interp, tables :
               image = [n |-> n, secs |-> secs, base |-> base, interp |-> interp, tables |-> tables]
  BY <1>2, Zenon DEF ImageInv, Skeleton
<1>3. ASSUME NEW secs, secs = image.secs, ImageInv
      PROVE  [image EXCEPT !.secs = secs] = image
  BY <1>2, <1>3, SMT
<1> QED  BY <1>1, <1>3, SMT DEF PatchDynamic

\* Every step of a link is a step of the layout, or none.
LEMMA StepsOfLayout == ImageInv /\ [Next]_vars => ImageInv' /\ [LayoutNext]_layoutVars
<1> SUFFICES ASSUME ImageInv, [Next]_vars PROVE ImageInv' /\ [LayoutNext]_layoutVars
  OBVIOUS
<1>1. CASE Layout
  BY <1>1 DEF Layout, imageVars, LayoutNext, ImageInv, AssignStep, Skip, Assign, EndPass,
              EmitStep, PutHeaders, PutSection, EndRx, EndRw, PutTables
<1>2. CASE PatchDynamic
  <2>1. image' = image
    BY <1>2, PatchedImage
  <2> QED  BY <1>2, <2>1 DEF PatchDynamic, layoutVars, ImageInv
<1>3. CASE Relocate \/ Ended \/ UNCHANGED vars
  BY <1>3 DEF Relocate, Ended, vars, imageVars, layoutVars, ImageInv
<1> QED  BY <1>1, <1>2, <1>3 DEF Next

\* The contents that are filled in between the passes leave one layout, for any
\* symbols, imports and relocations (elfout.rs: "section sizes to be unchanged").
THEOREM OneLayout == Spec => ImplementsLayout
<1>1. IInit => Init /\ ImageInv
  BY LinkFacts DEF IInit, Init, ImageInv
<1>2. ImageInv /\ [Next]_vars => ImageInv' /\ [LayoutNext]_layoutVars
  BY StepsOfLayout
<1> QED  BY <1>1, <1>2, PTL DEF Spec, LayoutSpec, ImplementsLayout

\* What is proved of the layout holds of the images of links.
COROLLARY LaidOut ==
  Spec => []TypeOK /\ []MemoryApart /\ []FilePlaced /\ []Loadable
BY OneLayout, TypeCorrect, Apart, Placed, CanBeMapped, PTL DEF ImplementsLayout
-----------------------------------------------------------------------------
(***************************************************************************)
(* What is written between the passes.                                     *)
(***************************************************************************)

\* Contents and words are those of the addresses, which stay as they are.
LinkInv ==
  /\ ImageInv
  /\ pc \in Classes => stage \in {"layout", "failed"}
  /\ pc \notin Classes \cup {"assigned"} => stage = "emit"
  /\ stage = "layout" => content = NoContents
  /\ stage \in {"patched", "emit"} => content = IF HasDynamic(link) THEN Contents ELSE NoContents
  /\ stage = "emit" =>
       /\ words = [i \in DOMAIN link.relocs |-> Value(link.relocs[i])]
       /\ \A r \in ToSet(link.relocs) : InRange(r)

LEMMA SameAddress ==
  ASSUME UNCHANGED <<image, vma>>, NEW name
  PROVE  Address(name)' = Address(name)
<1>1. Named({name})' = Named({name})
  BY DEF Named, Ids
<1>2. (CHOOSE i \in Named({name}) : TRUE)' = CHOOSE i \in Named({name}) : TRUE
  BY <1>1
<1>3. vma[CHOOSE i \in Named({name}) : TRUE]' = vma[CHOOSE i \in Named({name}) : TRUE]
  BY <1>2
<1> QED  BY <1>1, <1>3, Zenon DEF Address

LEMMA SameValues ==
  ASSUME UNCHANGED <<image, vma, link>>
  PROVE  /\ Contents' = Contents
         /\ \A r : Value(r)' = Value(r) /\ InRange(r)' = InRange(r)
<1>1. \A name : Address(name)' = Address(name)
  BY SameAddress
<1>2. \A name : AbsSym(name)' = AbsSym(name)
  BY <1>1 DEF AbsSym
<1>3. \A r : Site(r)' = Site(r)
  BY <1>1 DEF Site
<1>4. Imported' = Imported /\ \A i : PltEntry(i)' = PltEntry(i) /\ GotSlot(i)' = GotSlot(i)
  BY <1>1 DEF Imported, PltEntry, GotSlot
<1>5. \A i : PltStub(i)' = PltStub(i) /\ JumpSlot(i)' = JumpSlot(i)
  BY <1>4 DEF PltStub, JumpSlot
<1>6. \A r : Relative(r)' = Relative(r)
  BY <1>2, <1>3 DEF Relative
<1>7. DynamicTags' = DynamicTags /\ \A s : PatchedExport(s)' = PatchedExport(s)
  <2>1. DynamicTags' = DynamicTags
    BY DEF DynamicTags
  <2>2. \A s : PatchedExport(s)' = PatchedExport(s)
    BY <1>2 DEF PatchedExport
  <2> QED  BY <2>1, <2>2
<1>8. Contents' = Contents
  BY <1>4, <1>5, <1>6, <1>7 DEF Contents
<1>9. /\ \A name : OutputOf(name)' = OutputOf(name)
      /\ \A name : OutputSize(name)' = OutputSize(name)
  BY DEF OutputOf, OutputSize
<1>10. \A s : TpOff(s)' = TpOff(s)
  <2>1. TlsAligns' = TlsAligns
    BY <1>9 DEF TlsAligns
  <2>2. TlsAlign' = TlsAlign
    BY <2>1 DEF TlsAlign
  <2>3. TlsBlockSize' = TlsBlockSize
    BY <1>9, <2>2 DEF TlsBlockSize
  <2> QED  BY <1>9, <2>3 DEF TpOff
<1>11. \A name : GotTlsSlot(GotTlsIndex(name))' = GotTlsSlot(GotTlsIndex(name))
  <2>1. \A name : GotTlsIndex(name)' = GotTlsIndex(name)
    BY DEF GotTlsIndex
  <2> QED  BY <1>1, <2>1 DEF GotTlsSlot
<1>12. \A r : Target(r)' = Target(r)
  BY <1>2, <1>4, <1>10, <1>11 DEF Target
<1>13. \A r : Value(r)' = Value(r)
  BY <1>3, <1>12 DEF Value, Addend, From, Cut
<1>14. \A r : InRange(r)' = InRange(r)
  BY <1>9 DEF InRange
<1> QED  BY <1>8, <1>13, <1>14

LEMMA LinkInvStays ==
  ASSUME LinkInv, UNCHANGED <<image, vma, link>>,
         UNCHANGED <<stage, content, words>>,
         pc' \in Classes => pc \in Classes,
         pc' \notin Classes \cup {"assigned"} => stage = "emit"
  PROVE  LinkInv'
<1>1. ImageInv'
  BY DEF LinkInv, ImageInv
<1>2. [i \in DOMAIN link.relocs |-> Value(link.relocs[i])]' = [i \in DOMAIN link.relocs |-> Value(link.relocs[i])]
  BY SameValues
<1>3. (\A r \in ToSet(link.relocs) : InRange(r)) => (\A r \in ToSet(link.relocs) : InRange(r))'
  BY SameValues
<1>4. Contents' = Contents
  BY SameValues
<1> QED  BY <1>1, <1>2, <1>3, <1>4 DEF LinkInv

LEMMA NextLink == LinkInv /\ [Next]_vars => LinkInv'
<1> SUFFICES ASSUME LinkInv, [Next]_vars PROVE LinkInv'
  OBVIOUS
<1>1. ImageInv'
  BY StepsOfLayout DEF LinkInv
<1>2. CASE stage = "layout" /\ AssignStep /\ UNCHANGED imageVars
  <2>1. stage = "layout" /\ stage' = "layout" /\ content' = content /\ pc' \in Classes \cup {"assigned"}
    BY <1>2 DEF imageVars, AssignStep, Skip, Assign, EndPass, NextPass, Classes
  <2> QED  BY <1>1, <2>1 DEF LinkInv
<1>3. CASE stage = "emit" /\ EmitStep /\ UNCHANGED imageVars
  <2>1. UNCHANGED <<image, vma>> /\ pc' \notin Classes
    BY <1>3 DEF EmitStep, PutHeaders, PutSection, EndRx, EndRw, PutTables, Classes
  <2> QED  BY <1>3, <2>1, LinkInvStays DEF imageVars
<1>4. CASE PatchDynamic
  <2>1. /\ image' = image /\ UNCHANGED <<pc, vma, link>> /\ stage' = "patched" /\ pc = "assigned"
        /\ content' = IF HasDynamic(link) THEN Contents ELSE content
    BY <1>4, PatchedImage DEF PatchDynamic, LinkInv
  <2>2. content = NoContents
    BY <1>4 DEF PatchDynamic, LinkInv
  <2> QED  BY <1>1, <2>1, <2>2, SameValues DEF LinkInv, Classes
<1>5. CASE Relocate
  <2>1. UNCHANGED <<image, pc, vma, link, content>> /\ stage = "patched"
    BY <1>5 DEF Relocate, layoutVars
  <2>2. Contents' = Contents
    BY <2>1, SameValues
  <2>3. CASE \A r \in ToSet(link.relocs) : InRange(r)
    <3>1. stage' = "emit" /\ words' = [i \in DOMAIN link.relocs |-> Value(link.relocs[i])]
      BY <1>5, <2>3 DEF Relocate
    <3>2. words' = [i \in DOMAIN link.relocs |-> Value(link.relocs[i])]'
      BY <2>1, <3>1, SameValues
    <3>3. (\A r \in ToSet(link.relocs) : InRange(r))'
      BY <2>1, <2>3, SameValues
    <3> QED  BY <1>1, <2>1, <2>2, <3>1, <3>2, <3>3 DEF LinkInv
  <2>4. CASE ~\A r \in ToSet(link.relocs) : InRange(r)
    BY <1>1, <1>5, <2>1, <2>4 DEF Relocate, LinkInv, Classes
  <2> QED  BY <2>3, <2>4
<1>6. CASE UNCHANGED vars
  BY <1>6, LinkInvStays DEF vars, layoutVars, imageVars, LinkInv
<1> QED  BY <1>2, <1>3, <1>4, <1>5, <1>6 DEF Next, Layout, Ended

LEMMA LinkInvariant == Spec => [](TypeOK /\ MemoryApart /\ LinkInv)
<1>1. IInit => LinkInv
  BY LinkFacts DEF IInit, Start, LinkInv, ImageInv, Classes
<1>2. Spec => []LinkInv
  BY <1>1, NextLink, PTL DEF Spec
<1> QED  BY <1>2, LaidOut, PTL

\* What holds once the addresses are there.
Ready == /\ TypeOK /\ MemoryApart /\ LinkInv
         /\ stage = "emit" /\ pc \notin Classes

LEMMA FinishedIsReady == TypeOK /\ MemoryApart /\ LinkInv /\ Finished => Ready
BY DEF Finished, LinkInv, Classes, Ready

LEMMA DefinitionType ==
  ASSUME IsLink(link), NEW name \in Defined(link)
  PROVE  Definition(link, name) \in Symbol /\ Definition(link, name).off \in Nat
<1>1. link.syms \in Seq(Symbol)
  BY DEF IsLink
<1>2. \A i \in DOMAIN link.syms : link.syms[i] \in Symbol
  BY <1>1
<1>3. \E i \in DOMAIN link.syms : link.syms[i].name = name
  BY DEF Defined
<1>4. Definition(link, name) \in Symbol
  BY <1>2, <1>3 DEF Definition
<1> QED  BY <1>4 DEF Symbol

LEMMA AddressType ==
  ASSUME Ready, NEW name
  PROVE  Address(name) \in Nat
<1>1. DOMAIN vma = Ids /\ \A i \in Ids : vma[i] \in Nat
  BY DEF Ready, TypeOK
<1>2. Named({name}) # {} => (CHOOSE i \in Named({name}) : TRUE) \in Ids
  BY DEF Named
<1> QED  BY <1>1, <1>2 DEF Address

\* The names of .dynsym: the imports, then the exports, each once.
LEMMA NamesOfDynsym ==
  ASSUME NEW l \in Links
  PROVE  /\ Len(l.imports) \in Nat /\ Len(Exports(l)) \in Nat
         /\ DOMAIN l.imports = 1..Len(l.imports) /\ DOMAIN Exports(l) = 1..Len(Exports(l))
         /\ Len(DynNames(l)) = Len(l.imports) + Len(Exports(l))
         /\ \A i \in 1..Len(l.imports) : DynNames(l)[i] = l.imports[i]
         /\ \A j \in 1..Len(Exports(l)) : DynNames(l)[Len(l.imports) + j] = Exports(l)[j].name
         /\ \A i, j \in 1..Len(DynNames(l)) : DynNames(l)[i] = DynNames(l)[j] => i = j
<1> DEFINE names == [i \in DOMAIN Exports(l) |-> Exports(l)[i].name]
<1>1. l.imports \in Seq(STRING) /\ l.syms \in Seq(Symbol) /\ Distinct(l)
  BY LinkFacts DEF IsLink
<1>2. PICK e : e = Exports(l) /\ e \in Seq(Symbol)
  BY ExportsType
<1>3. names \in Seq(STRING) /\ Len(names) = Len(e) /\ \A j \in 1..Len(e) : names[j] = e[j].name
  <2>1. DOMAIN e = 1..Len(e) /\ Len(e) \in Nat /\ \A j \in 1..Len(e) : e[j] \in Symbol
    BY <1>2
  <2>2. \A j \in 1..Len(e) : e[j].name \in STRING
    BY <2>1 DEF Symbol
  <2>3. names = [j \in 1..Len(e) |-> e[j].name]
    BY <1>2, <2>1
  <2> HIDE DEF names
  <2> QED  BY <2>1, <2>2, <2>3
<1>4. DynNames(l) = l.imports \o names
  BY DEF DynNames
<1> HIDE DEF names
<1>5. /\ Len(l.imports \o names) = Len(l.imports) + Len(e)
      /\ Len(l.imports) \in Nat /\ Len(e) \in Nat
      /\ \A i \in 1..Len(l.imports) : (l.imports \o names)[i] = l.imports[i]
      /\ \A j \in 1..Len(e) : (l.imports \o names)[Len(l.imports) + j] = e[j].name
  <2> DEFINE m == l.imports
  <2>1. m \in Seq(STRING) /\ names \in Seq(STRING)
    BY <1>1, <1>3
  <2> HIDE DEF m
  <2>2. /\ Len(m \o names) = Len(m) + Len(names) /\ Len(m) \in Nat /\ Len(names) \in Nat
        /\ \A i \in 1..Len(m) : (m \o names)[i] = m[i]
        /\ \A j \in 1..Len(names) : (m \o names)[Len(m) + j] = names[j]
    BY <2>1, Concat
  <2> QED  BY <1>3, <2>2 DEF m
<1>6. DOMAIN l.imports = 1..Len(l.imports) /\ DOMAIN e = 1..Len(e)
  BY <1>1, <1>2
<1>7. \A j \in 1..Len(e) : \E i \in DOMAIN l.syms : e[j] = l.syms[i]
  <2>1. \A j \in DOMAIN Chosen(l.syms, Exported(l)) :
          \E i \in DOMAIN l.syms : Chosen(l.syms, Exported(l))[j] = l.syms[i]
    BY <1>1, ChosenTakes
  <2> QED  BY <1>2, <1>6, <2>1 DEF Exports
<1>8. \A j \in 1..Len(e) : e[j].name \in Defined(l)
  BY <1>7 DEF Defined
<1>9. ASSUME NEW i \in 1..Len(e), NEW j \in 1..Len(e), e[i].name = e[j].name PROVE i = j
  <2>1. \A x, y \in DOMAIN l.syms : l.syms[x] = l.syms[y] => x = y
    BY <1>1 DEF Distinct
  <2>2. \A x, y \in DOMAIN e : e[x] = e[y] => x = y
    <3>1. \A x, y \in DOMAIN Chosen(l.syms, Exported(l)) :
            Chosen(l.syms, Exported(l))[x] = Chosen(l.syms, Exported(l))[y] => x = y
      BY <1>1, <2>1, ChosenTakes
    <3> QED  BY <1>2, <3>1 DEF Exports
  <2>3. PICK x \in DOMAIN l.syms, y \in DOMAIN l.syms : e[i] = l.syms[x] /\ e[j] = l.syms[y]
    BY <1>7
  <2>4. x = y
    BY <1>1, <1>9, <2>3 DEF Distinct
  <2> QED  BY <1>6, <2>2, <2>3, <2>4
<1>10. ASSUME NEW i \in 1..Len(DynNames(l)), NEW j \in 1..Len(DynNames(l)), DynNames(l)[i] = DynNames(l)[j]
       PROVE  i = j
  <2>1. PICK a \in Nat, b \in Nat : a = Len(l.imports) /\ b = Len(e)
    BY <1>5
  <2>2. i \in 1..(a + b) /\ j \in 1..(a + b)
    BY <1>4, <1>5, <2>1
  <2>3. ASSUME NEW x \in 1..(a + b)
        PROVE  \/ x \in 1..a /\ DynNames(l)[x] = l.imports[x] /\ l.imports[x] \in ToSet(l.imports)
               \/ x - a \in 1..b /\ DynNames(l)[x] = e[x - a].name /\ e[x - a].name \in Defined(l)
    <3>1. CASE x <= a
      <4>1. x \in 1..a
        BY <3>1
      <4> QED  BY <1>4, <1>5, <1>6, <2>1, <4>1 DEF ToSet
    <3>2. CASE x > a
      <4>1. x - a \in 1..b /\ x = a + (x - a)
        BY <3>2
      <4> QED  BY <1>4, <1>5, <1>8, <2>1, <4>1
    <3> QED  BY <3>1, <3>2
  <2>4. ToSet(l.imports) \cap Defined(l) = {}
    BY <1>1 DEF Distinct
  <2>5. CASE i \in 1..a /\ j \in 1..a /\ l.imports[i] = l.imports[j]
    BY <1>1, <1>6, <2>1, <2>5 DEF Distinct
  <2>6. CASE i - a \in 1..b /\ j - a \in 1..b /\ e[i - a].name = e[j - a].name
    <3>1. i - a = j - a
      BY <1>9, <2>1, <2>6
    <3> QED  BY <2>1, <2>2, <3>1
  <2> QED  BY <1>10, <2>2, <2>3, <2>4, <2>5, <2>6
<1> QED  BY <1>2, <1>4, <1>5, <1>6, <1>10

\* What a reference is to is where the linker put it.
LEMMA Written ==
  ASSUME Ready, NEW i \in DOMAIN link.relocs
  PROVE  /\ words[i] = Value(link.relocs[i]) /\ InRange(link.relocs[i])
         /\ link.relocs[i] \in Reloc /\ link.relocs[i] \in ToSet(link.relocs)
         /\ link.relocs[i].addend \in Int /\ link.relocs[i].inplace \in (0 - Half32)..(Half32 - 1)
         /\ Site(link.relocs[i]) \in Nat /\ From(link.relocs[i]) \in Nat
<1>1. link.relocs[i] \in ToSet(link.relocs)
  BY DEF ToSet
<1>2. link.relocs[i] \in Reloc
  BY LinkFacts DEF Ready, LinkInv, ImageInv
<1>3. /\ link.relocs[i].addend \in Int /\ link.relocs[i].off \in Nat
      /\ link.relocs[i].inplace \in (0 - Half32)..(Half32 - 1)
  BY <1>2 DEF Reloc
<1>4. Site(link.relocs[i]) \in Nat
  BY <1>3, AddressType DEF Site
<1> QED  BY <1>1, <1>2, <1>3, <1>4 DEF Ready, LinkInv, From

\* A value is cut exactly if it is not of 32 bits.
LEMMA CutKeeps ==
  ASSUME NEW v \in Int, NEW type, type # "64"
  PROVE  Cut(type, v) = v <=> v \in (IF type = "32" THEN 0..(Word32 - 1) ELSE (0 - Half32)..(Half32 - 1))
<1>1. Half32 \in Nat \ {0} /\ Word32 \in Nat \ {0} /\ Word32 = Half32 + Half32
  BY Half32Assumption DEF Word32
<1>2. ASSUME NEW x \in Int PROVE x % Word32 \in 0..(Word32 - 1) /\ (x \in 0..(Word32 - 1) => x % Word32 = x)
  <2>1. x % Word32 \in 0..(Word32 - 1)
    BY <1>1
  <2>2. x \in 0..(Word32 - 1) => (Word32 * 0 + x) % Word32 = x
    BY <1>1, RestOf
  <2>3. Word32 * 0 + x = x
    BY <1>1
  <2> QED  BY <2>1, <2>2, <2>3
<1>3. CASE type = "32"
  <2>1. Cut(type, v) = v % Word32
    BY <1>3 DEF Cut
  <2> HIDE DEF Cut
  <2> QED  BY <1>2, <1>3, <2>1
<1>4. CASE type # "32"
  <2>1. Cut(type, v) = ((v + Half32) % Word32) - Half32
    BY <1>4 DEF Cut
  <2>2. PICK d \in 0..(Word32 - 1) : /\ d = (v + Half32) % Word32
                                     /\ v + Half32 \in 0..(Word32 - 1) => d = v + Half32
    <3>1. v + Half32 \in Int
      BY <1>1
    <3> QED  BY <1>2, <3>1
  <2>3. d - Half32 = v <=> v \in (0 - Half32)..(Half32 - 1)
    BY <1>1, <2>2
  <2> QED  BY <1>4, <2>1, <2>2, <2>3
<1> QED  BY <1>3, <1>4

\* Nothing that 32 bits hold is lost by the cut.
LEMMA CutMoves ==
  ASSUME NEW v \in Int, NEW type, type # "64", NEW p \in (0 - Half32)..(Half32 - 1), p # 0
  PROVE  Cut(type, v + p) # v
<1>1. Half32 \in Nat \ {0} /\ Word32 \in Nat \ {0} /\ Word32 = Half32 + Half32
  BY Half32Assumption DEF Word32
<1>2. ASSUME NEW x \in Int PROVE (x + p) % Word32 # x
  <2> SUFFICES ASSUME (x + p) % Word32 = x PROVE FALSE
    OBVIOUS
  <2>1. PICK q \in Int : x + p = Word32 * q + x
    <3>1. x + p \in Int
      BY <1>1
    <3>2. (x + p) \div Word32 \in Int /\ x + p = Word32 * ((x + p) \div Word32) + ((x + p) % Word32)
      BY <1>1, <3>1
    <3> QED  BY <3>2
  <2>2. p = Word32 * q
    BY <1>1, <2>1
  <2>3. q >= 1 => Word32 * q >= Word32
    BY <1>1
  <2>4. q <= -1 => Word32 * q <= -Word32
    BY <1>1
  <2>5. q = 0
    BY <1>1, <2>2, <2>3, <2>4
  <2> QED  BY <1>1, <2>2, <2>5
<1>3. CASE type = "32"
  BY <1>2, <1>3 DEF Cut
<1>4. CASE type # "32"
  <2>1. Cut(type, v + p) = ((v + p + Half32) % Word32) - Half32
    BY <1>4 DEF Cut
  <2>2. ((v + Half32) + p) % Word32 # v + Half32 /\ v + p + Half32 = (v + Half32) + p /\ (v + Half32) + p \in Int
    BY <1>1, <1>2
  <2>3. PICK d \in Int : d = (v + p + Half32) % Word32
    BY <1>1, <2>2
  <2> QED  BY <1>1, <2>1, <2>2, <2>3
<1> QED  BY <1>3, <1>4

\* So a 32-bit word is what was asked for, or something else.
LEMMA WordAsked ==
  ASSUME Ready, NEW i \in DOMAIN link.relocs, link.relocs[i].type # "64", Target(link.relocs[i]) \in Int
  PROVE  Meant(link.relocs[i]) \in Int /\ (words[i] = Meant(link.relocs[i]) <=> AsAsked(link.relocs[i]))
<1> DEFINE r == link.relocs[i]
<1>1. /\ words[i] = Value(r) /\ r.addend \in Int /\ From(r) \in Nat
      /\ r.inplace \in (0 - Half32)..(Half32 - 1)
  BY Written
<1>2. Meant(r) \in Int /\ Meant(r) = Target(r) + r.addend - From(r)
  BY <1>1 DEF Meant
<1> HIDE DEF r
<1>3. InReach(r) <=> Meant(r) \in (IF r.type = "32" THEN 0..(Word32 - 1) ELSE (0 - Half32)..(Half32 - 1))
  BY DEF InReach, r
<1>4. CASE ~AddendFound(r)
  <2>1. Addend(r) = r.addend
    <3>1. r.addend = 0 => r.inplace = 0
      BY <1>4 DEF AddendFound, r
    <3> QED  BY <3>1 DEF Addend
  <2>2. words[i] = Cut(r.type, Meant(r))
    BY <1>1, <1>2, <2>1 DEF Value
  <2>3. Cut(r.type, Meant(r)) = Meant(r) <=> InReach(r)
    BY <1>2, <1>3, CutKeeps DEF r
  <2> QED  BY <1>2, <1>4, <2>2, <2>3 DEF AsAsked, r
<1>5. CASE AddendFound(r)
  <2>1. Addend(r) = r.inplace /\ r.addend = 0 /\ r.inplace # 0
    BY <1>5 DEF AddendFound, Addend
  <2>2. PICK t \in Int, f \in Nat, p \in (0 - Half32)..(Half32 - 1) : t = Target(r) /\ f = From(r) /\ p = r.inplace
    BY <1>1 DEF r
  <2>3. Meant(r) = t - f /\ t + p - f = (t - f) + p
    BY <1>2, <2>1, <2>2, Half32Assumption
  <2>4. words[i] = Cut(r.type, (t - f) + p)
    BY <1>1, <2>1, <2>2, <2>3 DEF Value
  <2>5. Cut(r.type, (t - f) + p) # t - f
    BY <2>1, <2>2, CutMoves DEF r
  <2> QED  BY <1>2, <1>5, <2>3, <2>4, <2>5 DEF AsAsked, r
<1> QED  BY <1>4, <1>5

\* The target of a call of an import is its stub.
LEMMA CallTarget ==
  ASSUME Ready, NEW r \in ToSet(link.relocs), r.sym \in ToSet(link.imports)
  PROVE  /\ r.type = "plt32"
         /\ \E e \in Imported : /\ link.imports[e] = r.sym /\ Target(r) = PltEntry(e)
                                /\ e \in 1..Len(link.imports) /\ e \in Nat
                                /\ PltEntry(e) \in Int /\ GotSlot(e) \in Int
<1>1. link \in Links /\ IsLink(link) /\ Distinct(link)
  BY LinkFacts DEF Ready, LinkInv, ImageInv, IsLink
<1>2. r.type = "plt32"
  BY <1>1 DEF IsLink, Distinct
<1>3. \E e \in Imported : link.imports[e] = r.sym
  BY DEF ToSet, Imported
<1>4. PICK e : e = CHOOSE x \in Imported : link.imports[x] = r.sym
  OBVIOUS
<1>5. e \in Imported /\ link.imports[e] = r.sym
  BY <1>3, <1>4
<1>6. Target(r) = PltEntry(e)
  BY <1>2, <1>4 DEF Target
<1>7. e \in Nat /\ e \in 1..Len(link.imports)
  BY <1>1, <1>5, NamesOfDynsym DEF Imported
<1>8. PltEntry(e) \in Int /\ GotSlot(e) \in Int
  <2>1. Address(".plt") \in Nat /\ Address(".got.plt") \in Nat
    BY AddressType
  <2> QED  BY <1>7, <2>1 DEF PltEntry, GotSlot
<1> QED  BY <1>2, <1>5, <1>6, <1>7, <1>8

\* A call of an imported function arrives there, whatever is imported and
\* whatever the addresses, unless its word is cut or changed by bits in place: the
\* jump of the stub, the slot, its relocation and .dynsym agree (linker.rs
\* patch_dynamic_content, apply_reloc).
THEOREM CallsAreLinked == Spec => []CallsArrive
<1>1. Ready => CallsArrive
  <2> SUFFICES ASSUME Ready, NEW i \in DOMAIN link.relocs,
                      link.relocs[i].sym \in ToSet(link.imports), AsAsked(link.relocs[i])
               PROVE  \E e \in Imported :
                        /\ words[i] - link.relocs[i].addend + Site(link.relocs[i]) = PltEntry(e)
                        /\ \E j \in DOMAIN content.relaPlt :
                             /\ content.relaPlt[j].at = PltEntry(e) + 6 + content.plt[e]
                             /\ LET n == content.relaPlt[j].sym IN
                                n \in Entries /\ DynNames(link)[n] = link.relocs[i].sym
    BY Zenon DEF CallsArrive
  <2> DEFINE r == link.relocs[i]
  <2>1. /\ r \in ToSet(link.relocs) /\ r.addend \in Int /\ Site(r) \in Nat
    BY Written
  <2>2. link \in Links
    BY DEF Ready, LinkInv, ImageInv
  <2>3. r.type = "plt32"
    BY <2>1, CallTarget
  <2>4. PICK e \in Imported : /\ link.imports[e] = r.sym /\ Target(r) = PltEntry(e)
                              /\ e \in 1..Len(link.imports) /\ e \in Nat
                              /\ PltEntry(e) \in Int /\ GotSlot(e) \in Int
    BY <2>1, CallTarget
  <2>5. words[i] = Meant(r)
    BY <2>3, <2>4, WordAsked
  <2> HIDE DEF r
  <2>6. Meant(r) = PltEntry(e) + r.addend - Site(r)
    BY <2>3, <2>4 DEF Meant, From
  <2>7. words[i] - r.addend + Site(r) = PltEntry(e)
    BY <2>1, <2>4, <2>5, <2>6
  <2>8. content = Contents
    <3>1. HasDynamic(link)
      BY <2>4 DEF HasDynamic, Imported
    <3> QED  BY <3>1 DEF Ready, LinkInv
  <2>9. content.plt[e] = PltStub(e) /\ e \in DOMAIN content.relaPlt /\ content.relaPlt[e] = JumpSlot(e)
    BY <2>4, <2>8 DEF Contents
  <2>10. content.relaPlt[e].at = PltEntry(e) + 6 + content.plt[e]
    BY <2>4, <2>9 DEF PltStub, JumpSlot
  <2>11. content.relaPlt[e].sym = e /\ e \in Entries /\ DynNames(link)[e] = r.sym
    BY <2>2, <2>4, <2>9, NamesOfDynsym DEF JumpSlot, Entries
  <2> USE DEF r
  <2> QED  BY <2>4, <2>7, <2>9, <2>10, <2>11
<1> QED  BY <1>1, FinishedIsReady, LinkInvariant, PTL DEF CallsArrive
-----------------------------------------------------------------------------
(***************************************************************************)
(* The hash table.                                                         *)
(***************************************************************************)

BucketOf(i) == Hash(DynNames(link)[i]) % Buckets

\* The symbols of a bucket up to one of them: what a lookup passes from there.
UpTo(i) == IF i = 0 THEN {} ELSE {j \in InBucket(BucketOf(i)) : j <= i}

LEMMA GreatestIs ==
  ASSUME NEW N \in Nat, NEW S \in SUBSET (1..N)
  PROVE  /\ S = {} => GreatestOf(S) = 0
         /\ S # {} => GreatestOf(S) \in S /\ \A j \in S : j <= GreatestOf(S)
<1>1. CASE S = {}
  BY <1>1 DEF GreatestOf
<1>2. CASE S # {}
  <2>1. S \in SUBSET Nat /\ \A x \in S : x <= N
    OBVIOUS
  <2>2. \E m \in S : \A x \in S : x <= m
    BY <1>2, <2>1, Greatest
  <2> QED  BY <1>2, <2>2 DEF GreatestOf
<1> QED  BY <1>1, <1>2

\* A chain goes from each symbol of a bucket to the one before it.
LEMMA ChainPasses ==
  ASSUME NEW N \in Nat, N = Len(DynNames(link)), NEW i \in 1..N
  PROVE  Chain(i) \in 0..N /\ Chain(i) < i /\ UpTo(i) = {i} \cup UpTo(Chain(i))
<1> DEFINE B == InBucket(BucketOf(i))
           S == {j \in B : j < i}
<1>1. B \in SUBSET (1..N) /\ i \in B /\ \A j \in B : BucketOf(j) = BucketOf(i)
  BY DEF InBucket, Entries, BucketOf
<1>2. Chain(i) = GreatestOf(S)
  BY DEF Chain, BucketOf
<1>3. UpTo(i) = {j \in B : j <= i}
  BY DEF UpTo
<1> HIDE DEF B
<1>4. S \in SUBSET (1..N)
  BY <1>1
<1>5. CASE S = {}
  <2>1. Chain(i) = 0
    BY <1>2, <1>4, <1>5, GreatestIs
  <2>2. \A j \in B : j <= i <=> j = i
    BY <1>1, <1>5
  <2>3. UpTo(i) = {i}
    BY <1>1, <1>3, <2>2
  <2> QED  BY <2>1, <2>3 DEF UpTo
<1>6. CASE S # {}
  <2>1. PICK c : c = Chain(i) /\ c \in S /\ \A j \in S : j <= c
    BY <1>2, <1>4, <1>6, GreatestIs
  <2>2. c \in B /\ c < i /\ c \in 1..N /\ c # 0
    BY <1>1, <2>1
  <2>3. UpTo(c) = {j \in B : j <= c}
    BY <1>1, <2>2 DEF UpTo, B
  <2>4. \A j \in B : j <= i <=> j = i \/ j <= c
    BY <1>1, <2>1, <2>2
  <2>5. UpTo(i) = {i} \cup UpTo(c)
    BY <1>1, <1>3, <2>3, <2>4
  <2> QED  BY <2>1, <2>2, <2>5
<1> QED  BY <1>5, <1>6

\* A lookup passes all of them.
LEMMA PassedIs ==
  ASSUME NEW N \in Nat, N = Len(DynNames(link)), NEW i \in 0..N
  PROVE  Passed[i] = UpTo(i)
<1> DEFINE Follows(f) == f = [x \in 0..Len(DynNames(link)) |-> IF x = 0 THEN {} ELSE {x} \cup f[Chain(x)]]
           g == [x \in 0..N |-> UpTo(x)]
<1>1. Follows(g)
  <2>1. ASSUME NEW x \in 0..N PROVE UpTo(x) = IF x = 0 THEN {} ELSE {x} \cup g[Chain(x)]
    <3>1. CASE x = 0
      BY <3>1 DEF UpTo
    <3>2. CASE x # 0
      <4>1. x \in 1..N
        BY <3>2
      <4> QED  BY <3>2, <4>1, ChainPasses
    <3> QED  BY <3>1, <3>2
  <2>2. g = [x \in 0..N |-> IF x = 0 THEN {} ELSE {x} \cup g[Chain(x)]]
    BY <2>1
  <2> QED  BY <2>2
<1>2. Passed = CHOOSE f : Follows(f)
  BY DEF Passed
<1>3. Follows(Passed)
  <2> HIDE DEF Follows, g
  <2> QED  BY <1>1, <1>2
<1> HIDE DEF g
<1> DEFINE T == {x \in 0..N : Passed[x] # UpTo(x)}
<1>4. T = {}
  <2> SUFFICES ASSUME T # {} PROVE FALSE
    OBVIOUS
  <2>1. T \in SUBSET Nat
    OBVIOUS
  <2> HIDE DEF T
  <2>2. PICK m \in T : \A x \in T : m <= x
    BY <2>1, Least
  <2> USE DEF T
  <2>3. m \in 0..N /\ Passed[m] = IF m = 0 THEN {} ELSE {m} \cup Passed[Chain(m)]
    BY <1>3, <2>2
  <2>4. CASE m = 0
    BY <2>2, <2>3, <2>4 DEF UpTo
  <2>5. CASE m # 0
    <3>1. m \in 1..N
      BY <2>3, <2>5
    <3>2. Chain(m) \in 0..N /\ Chain(m) < m /\ UpTo(m) = {m} \cup UpTo(Chain(m))
      BY <3>1, ChainPasses
    <3>3. Chain(m) \notin T
      BY <2>2, <2>3, <3>2
    <3>4. Passed[Chain(m)] = UpTo(Chain(m))
      BY <3>2, <3>3
    <3> QED  BY <2>2, <2>3, <2>5, <3>2, <3>4
  <2> QED  BY <2>4, <2>5
<1> QED  BY <1>4

\* So it finds what it is asked for, whatever collides.
LEMMA LookupFinds ==
  ASSUME link \in Links, NEW n \in Entries
  PROVE  Lookup(DynNames(link)[n]) = n
<1>1. PICK N \in Nat : N = Len(DynNames(link)) /\ Entries = 1..N
  BY NamesOfDynsym DEF Entries
<1> DEFINE B == InBucket(BucketOf(n))
           m == GreatestOf(B)
<1>2. B \in SUBSET (1..N) /\ n \in B /\ \A j \in B : BucketOf(j) = BucketOf(n)
  BY <1>1 DEF InBucket, BucketOf
<1>3. m \in B /\ n <= m /\ Bucket(BucketOf(n)) = m
  BY <1>1, <1>2, GreatestIs DEF Bucket
<1>4. m \in 1..N /\ m # 0
  BY <1>2, <1>3
<1>5. Passed[m] = {j \in B : j <= m}
  <2>1. Passed[m] = UpTo(m)
    BY <1>1, <1>4, PassedIs
  <2>2. BucketOf(m) = BucketOf(n)
    BY <1>2, <1>3
  <2> QED  BY <1>4, <2>1, <2>2 DEF UpTo
<1> HIDE DEF B, m
<1>6. {i \in Passed[m] : DynNames(link)[i] = DynNames(link)[n]} = {n}
  <2>1. n \in Passed[m]
    BY <1>2, <1>3, <1>5
  <2>2. \A i \in Passed[m] : DynNames(link)[i] = DynNames(link)[n] => i = n
    BY <1>1, <1>2, <1>5, NamesOfDynsym
  <2> QED  BY <2>1, <2>2
<1>7. GreatestOf({n}) = n
  <2>1. {n} \in SUBSET (1..N)
    BY <1>1
  <2> QED  BY <2>1, GreatestIs
<1> QED  BY <1>3, <1>6, <1>7 DEF Lookup, BucketOf

\* The chains of .hash lead from every name of .dynsym to its entry, for any names
\* and any hash function, the st_value of an export is the address of its
\* definition, and no entry is one that a loader binds to: imports are undefined,
\* and exports have lost their binding.
THEOREM LookupsSucceed == Spec => []SymbolsFound
<1>1. Ready => SymbolsFound
  <2> SUFFICES ASSUME Ready, HasDynamic(link), NEW n \in Entries
               PROVE  /\ Lookup(DynNames(link)[n]) = n
                      /\ n > Len(link.imports) => content.dynsym[n].value = AbsSym(DynNames(link)[n])
                      /\ ~BoundTo(n)
    BY DEF SymbolsFound
  <2>1. link \in Links /\ content = Contents
    BY DEF Ready, LinkInv, ImageInv
  <2> DEFINE imported == [i \in Imported |-> DynsymEntry(SHN_UNDEF)]
             exported == [i \in DOMAIN Exports(link) |-> PatchedExport(Exports(link)[i])]
  <2>2. content.dynsym = imported \o exported
    BY <2>1 DEF Contents
  <2>3. PICK a \in Nat, b \in Nat : /\ a = Len(link.imports) /\ b = Len(Exports(link)) /\ Len(DynNames(link)) = a + b
                                    /\ Imported = 1..a /\ DOMAIN Exports(link) = 1..b
    BY <2>1, NamesOfDynsym DEF Imported
  <2>4. PICK V : imported \in Seq(V) /\ exported \in Seq(V)
    <3> DEFINE V == {DynsymEntry(SHN_UNDEF)} \cup {PatchedExport(Exports(link)[i]) : i \in 1..b}
    <3>1. imported \in Seq(V) /\ exported \in Seq(V)
      BY <2>3
    <3> QED  BY <3>1
  <2>5. Len(imported) = a /\ Len(exported) = b
    BY <2>3
  <2>6. n \in 1..a => content.dynsym[n] = DynsymEntry(SHN_UNDEF)
    <3>1. \A i \in 1..a : imported[i] = DynsymEntry(SHN_UNDEF)
      BY <2>3
    <3> HIDE DEF imported, exported
    <3> QED  BY <3>1, <2>2, <2>4, <2>5, Concat
  <2>7. n > a => content.dynsym[n] = PatchedExport(Exports(link)[n - a])
    <3> SUFFICES ASSUME n > a  PROVE content.dynsym[n] = PatchedExport(Exports(link)[n - a])
      OBVIOUS
    <3>1. n - a \in 1..b /\ n = a + (n - a)
      BY <2>3 DEF Entries
    <3>2. exported[n - a] = PatchedExport(Exports(link)[n - a])
      BY <2>3, <3>1
    <3> HIDE DEF imported, exported
    <3> QED  BY <3>1, <3>2, <2>2, <2>4, <2>5, Concat
  <2> HIDE DEF imported, exported
  <2>8. n > a => content.dynsym[n].value = AbsSym(DynNames(link)[n])
    <3>1. ASSUME n > a  PROVE DynNames(link)[n] = Exports(link)[n - a].name
      <4>1. n - a \in 1..b /\ n = a + (n - a)
        BY <2>3, <3>1 DEF Entries
      <4> QED  BY <2>1, <2>3, <4>1, NamesOfDynsym
    <3>2. \A e : PatchedExport(e).value = AbsSym(e.name)
      BY DEF PatchedExport, DynsymEntry
    <3> QED  BY <2>7, <3>1, <3>2
  <2>9. ~BoundTo(n)
    <3>1. DynsymEntry(SHN_UNDEF).shndx = SHN_UNDEF
      BY DEF DynsymEntry
    <3>2. \A e : PatchedExport(e).bind = (SHN_ABS % 256) \div 16
      BY DEF PatchedExport, DynsymEntry
    <3>3. (SHN_ABS % 256) \div 16 \notin {STB_GLOBAL, STB_WEAK}
      BY DEF SHN_ABS, STB_GLOBAL, STB_WEAK
    <3>4. n \in 1..a \/ n > a
      BY <2>3 DEF Entries
    <3> QED  BY <2>6, <2>7, <3>1, <3>2, <3>3, <3>4 DEF BoundTo
  <2> QED  BY <2>1, <2>3, <2>8, <2>9, LookupFinds
<1> QED  BY <1>1, FinishedIsReady, LinkInvariant, PTL DEF SymbolsFound
-----------------------------------------------------------------------------
(***************************************************************************)
(* TLS, and words that are rebased.                                        *)
(***************************************************************************)

\* A section the linker does not make itself is the output of its name.
LEMMA SectionIsOutput ==
  ASSUME ImageInv, NEW name, name \notin LinkerMade
  PROVE  /\ Named({name}) = OutputOf(name)
         /\ \A i \in OutputOf(name) : image.secs[i] = link.outputs[i] /\ link.outputs[i] \in Section
         /\ \A i, j \in OutputOf(name) : i = j
<1>1. /\ link \in Links /\ image = Skeleton(link) /\ link.outputs \in Seq(Section) /\ Distinct(link)
  BY LinkFacts DEF ImageInv, IsLink
<1>2. PICK a \in Nat, b \in Nat, c \in Nat :
        /\ a = Len(link.outputs) /\ b = Len(Regular(link)) /\ c = Len(DynamicSections(link))
        /\ image.n = b + c
  BY <1>1, SkeletonSections
<1>3. DOMAIN link.outputs = 1..a
  BY <1>1, <1>2
<1>4. ASSUME NEW i \in 1..a
      PROVE  i \in Ids /\ image.secs[i] = link.outputs[i] /\ link.outputs[i] \in Section
  <2>1. i \in 1..b /\ Regular(link)[i] = link.outputs[i]
    BY <1>1, <1>2, SkeletonSections
  <2>2. image.secs[i] = Regular(link)[i]
    BY <1>1, <1>2, <2>1, SkeletonSections
  <2>3. i \in 1..(b + c)
    BY <2>1
  <2> QED  BY <1>1, <1>2, <1>3, <2>1, <2>2, <2>3 DEF Ids
<1>5. ASSUME NEW i \in Ids, image.secs[i].name = name
      PROVE  i \in 1..a
  <2>1. i \in 1..(b + c)
    BY <1>2 DEF Ids
  <2>2. CASE i \in 1..b /\ i > a
    <3>1. Regular(link)[i].name = ".got.tls" /\ image.secs[i] = Regular(link)[i]
      BY <1>1, <1>2, <2>2, SkeletonSections
    <3> QED  BY <1>5, <3>1 DEF LinkerMade
  <2>3. CASE i > b
    <3> DEFINE d == i - b
    <3>1. d \in 1..c /\ i = b + d
      BY <2>1, <2>3
    <3>2. image.secs[i] = DynamicSections(link)[d]
      BY <1>1, <1>2, <3>1, SkeletonSections
    <3> HIDE DEF d
    <3>3. DynamicSections(link)[d].name \in LinkerMade
      <4>1. d \in 1..Len(DynamicSections(link))
        BY <1>2, <3>1
      <4>2. \A n, c1, z, al : Sized(n, c1, z, al).name = n
        BY DEF Sized
      <4> DEFINE Made(s) == s.name \in LinkerMade
      <4>3. \A n \in LinkerMade : \A c1, z, al : Made(Sized(n, c1, z, al))
        BY <4>2
      <4>4. /\ ".hash" \in LinkerMade /\ ".dynsym" \in LinkerMade /\ ".dynstr" \in LinkerMade
            /\ ".rela.dyn" \in LinkerMade /\ ".rela.plt" \in LinkerMade /\ ".plt" \in LinkerMade
            /\ ".got.plt" \in LinkerMade /\ ".dynamic" \in LinkerMade
        BY DEF LinkerMade
      <4> HIDE DEF Made
      <4>5. \/ DynamicSections(link)[d] = Sized(".hash", "rx", HashSize(link), 8)
            \/ DynamicSections(link)[d] = Sized(".dynsym", "rx", 24 * (Len(DynNames(link)) + 1), 8)
            \/ DynamicSections(link)[d] = Sized(".dynstr", "rx", link.strings, 1)
            \/ DynamicSections(link)[d] = Sized(".rela.dyn", "rx", 24 * Len(RelativeSites(link)), 8)
            \/ DynamicSections(link)[d] = Sized(".rela.plt", "rx", 24 * Len(link.imports), 8)
            \/ DynamicSections(link)[d] = Sized(".plt", "rx", 16 * Len(link.imports), 16)
            \/ DynamicSections(link)[d] = Sized(".got.plt", "rw", 8 * Len(link.imports), 8)
            \/ DynamicSections(link)[d] = Sized(".dynamic", "rw", 16 * DynamicEntryCount(link), 8)
        BY <1>1, <4>1, DynamicOnes
      <4>6. Made(DynamicSections(link)[d])
        BY Zenon, <4>3, <4>4, <4>5
      <4> QED  BY <4>6 DEF Made
    <3> QED  BY <1>5, <3>2, <3>3
  <2>4. i \in 1..a \/ (i \in 1..b /\ i > a) \/ i > b
    BY <2>1
  <2> QED  BY <2>2, <2>3, <2>4
<1>6. Named({name}) = OutputOf(name)
  BY <1>3, <1>4, <1>5 DEF Named, OutputOf
<1>7. \A i, j \in OutputOf(name) : i = j
  BY <1>1 DEF Distinct, OutputOf
<1> QED  BY <1>3, <1>4, <1>6, <1>7 DEF OutputOf

\* Its size in the one and the other.
LEMMA SizeOfOutput ==
  ASSUME ImageInv, NEW name, name \notin LinkerMade
  PROVE  /\ OutputSize(name) \in Nat
         /\ OutputSize(name) = IF Named({name}) = {} THEN 0 ELSE Size(CHOOSE i \in Named({name}) : TRUE)
<1>1. CASE OutputOf(name) = {}
  BY <1>1, SectionIsOutput DEF OutputSize
<1>2. CASE OutputOf(name) # {}
  <2>1. PICK c : c = CHOOSE i \in OutputOf(name) : TRUE
    OBVIOUS
  <2>2. c \in OutputOf(name)
    BY <1>2, <2>1
  <2>3. image.secs[c] = link.outputs[c] /\ link.outputs[c].size \in Nat
    BY <2>2, SectionIsOutput DEF Section
  <2>4. OutputSize(name) = link.outputs[c].size
    BY <1>2, <2>1 DEF OutputSize
  <2>5. Size(c) = link.outputs[c].size
    BY <2>3 DEF Size
  <2> QED  BY <1>2, <2>1, <2>3, <2>4, <2>5, SectionIsOutput
<1> QED  BY <1>1, <1>2

\* The alignment tpoff_of rounds by is that of the segment.
LEMMA AlignOfTls ==
  ASSUME ImageInv, Named({".tdata", ".tbss"}) # {}
  PROVE  /\ TlsAlign \in Nat \ {0}
         /\ TlsAlign = CHOOSE x \in {image.secs[i].align : i \in Named({".tdata", ".tbss"})} :
                         \A i \in Named({".tdata", ".tbss"}) : image.secs[i].align <= x
<1> DEFINE A == {image.secs[i].align : i \in Named({".tdata", ".tbss"})}
           a == CHOOSE x \in A : \A i \in Named({".tdata", ".tbss"}) : image.secs[i].align <= x
           D == OutputOf(".tdata")
           B == OutputOf(".tbss")
<1>1. Named({".tdata"}) = D /\ Named({".tbss"}) = B
  BY SectionIsOutput DEF LinkerMade
<1>2. Named({".tdata", ".tbss"}) = D \cup B
  <2>1. Named({".tdata", ".tbss"}) = Named({".tdata"}) \cup Named({".tbss"})
    BY DEF Named
  <2> QED  BY <1>1, <2>1
<1>3. \A i \in D \cup B : image.secs[i].align = link.outputs[i].align /\ link.outputs[i].align \in Nat \ {0}
  BY SectionIsOutput DEF LinkerMade, Section
<1>4. (\A i, j \in D : i = j) /\ (\A i, j \in B : i = j)
  BY SectionIsOutput DEF LinkerMade
<1>5. TlsAligns = A \cup {1}
  BY <1>2, <1>3 DEF TlsAligns
<1> HIDE DEF D, B
<1>6. A # {} /\ A \in SUBSET (Nat \ {0}) /\ \A i \in D \cup B : image.secs[i].align \in A
  BY <1>2, <1>3
<1>7. \E b \in Nat : \A x \in A \cup {1} : x <= b
  <2>1. PICK d \in Nat : \A i \in D : image.secs[i].align <= d
    <3>1. CASE D = {}
      BY <3>1
    <3>2. CASE D # {}
      BY <1>3, <1>4, <3>2
    <3> QED  BY <3>1, <3>2
  <2>2. PICK b \in Nat : \A i \in B : image.secs[i].align <= b
    <3>1. CASE B = {}
      BY <3>1
    <3>2. CASE B # {}
      BY <1>3, <1>4, <3>2
    <3> QED  BY <3>1, <3>2
  <2>3. \A x \in A \cup {1} : x <= d + b + 1
    <3>1. \A i \in D \cup B : image.secs[i].align \in Nat /\ image.secs[i].align <= d + b + 1
      BY <1>3, <2>1, <2>2
    <3> QED  BY <1>2, <3>1
  <2> QED  BY <2>3
<1>8. \E x \in A \cup {1} : \A y \in A \cup {1} : y <= x
  <2>1. A \cup {1} \in SUBSET Nat /\ A \cup {1} # {}
    BY <1>6
  <2> QED  BY <1>7, <2>1, Greatest
<1>9. TlsAlign \in A \cup {1} /\ \A y \in A \cup {1} : y <= TlsAlign
  BY <1>5, <1>8 DEF TlsAlign
<1>10. TlsAlign \in A
  <2> HIDE DEF A
  <2>2. A # {} /\ A \in SUBSET (Nat \ {0})
    BY <1>6
  <2>3. \A y \in A : y \in Nat /\ 1 <= y
    BY <2>2
  <2>1. PICK y \in A : y \in Nat /\ 1 <= y
    BY <2>2, <2>3
  <2> QED  BY <1>9, <2>1
<1>11. \A i \in D \cup B : image.secs[i].align <= TlsAlign
  BY <1>6, <1>9
<1> HIDE DEF A
<1>12. a \in A /\ \A i \in D \cup B : image.secs[i].align <= a
  BY <1>2, <1>10, <1>11
<1> HIDE DEF a
<1>13. \A y \in A : y <= a
  BY <1>2, <1>12 DEF A
<1>14. TlsAlign \in Nat \ {0} /\ a \in Nat /\ TlsAlign <= a /\ a <= TlsAlign
  BY <1>6, <1>9, <1>10, <1>12, <1>13
<1>15. ASSUME NEW x \in Nat, NEW y \in Nat, x <= y, y <= x PROVE y = x
  BY <1>15
<1>16. TlsAlign \in Nat \ {0} /\ TlsAlign = a
  BY <1>14, <1>15
<1> QED  BY Zenon, <1>16 DEF a, A

LEMMA TlsAlignType ==
  ASSUME ImageInv
  PROVE  TlsAlign \in Nat \ {0}
<1>1. CASE Named({".tdata", ".tbss"}) # {}
  BY <1>1, AlignOfTls
<1>2. CASE Named({".tdata", ".tbss"}) = {}
  <2>1. Named({".tdata"}) = {} /\ Named({".tbss"}) = {}
    BY <1>2 DEF Named
  <2>2. OutputOf(".tdata") = {} /\ OutputOf(".tbss") = {}
    BY <2>1, SectionIsOutput DEF LinkerMade
  <2>3. TlsAligns = {1}
    BY <2>2 DEF TlsAligns
  <2>4. TlsAlign = 1
    BY <2>3 DEF TlsAlign
  <2> QED  BY <2>4
<1> QED  BY <1>1, <1>2

LEMMA TpOffType ==
  ASSUME ImageInv, NEW s \in Symbol
  PROVE  TpOff(s) \in Int
<1>1. OutputSize(".tdata") \in Nat /\ OutputSize(".tbss") \in Nat
  BY SizeOfOutput DEF LinkerMade
<1>2. TlsBlockSize \in Nat
  <2>1. OutputSize(".tdata") + OutputSize(".tbss") \in Nat
    BY <1>1
  <2> QED  BY <2>1, TlsAlignType, AlignUpIsUp DEF TlsBlockSize
<1>3. s.off \in Nat
  BY DEF Symbol
<1> QED  BY <1>1, <1>2, <1>3 DEF TpOff

\* The slot of a variable is that of its definition.
LEMMA SlotOfVariable ==
  ASSUME link \in Links, NEW r \in ToSet(link.relocs), r.type = "gottpoff"
  PROVE  \E e \in DOMAIN GotTlsSyms(link) :
           e = GotTlsIndex(r.sym) /\ e \in Nat /\ GotTlsSyms(link)[e] = Definition(link, r.sym)
<1> DEFINE S == {i \in DOMAIN link.syms :
                   \E q \in ToSet(link.relocs) : q.type = "gottpoff" /\ q.sym = link.syms[i].name}
           g == GotTlsSyms(link)
<1>1. link.syms \in Seq(Symbol) /\ IsLink(link) /\ Distinct(link)
  BY LinkFacts DEF IsLink
<1>2. r.sym \in Defined(link)
  BY <1>1 DEF IsLink
<1>3. PICK i \in DOMAIN link.syms : link.syms[i].name = r.sym
  BY <1>2 DEF Defined
<1>4. i \in DOMAIN link.syms \cap S
  BY <1>3
<1>5. g = Chosen(link.syms, S)
  BY DEF GotTlsSyms
<1> HIDE DEF S, g
<1>6. /\ g \in Seq(Symbol)
      /\ \E j \in DOMAIN g : g[j] = link.syms[i]
      /\ \A j \in DOMAIN g : \E n \in DOMAIN link.syms : g[j] = link.syms[n]
  BY <1>1, <1>4, <1>5, ChosenTakes
<1>7. \E j \in DOMAIN g : g[j].name = r.sym
  BY <1>3, <1>6
<1>8. PICK e : e = GotTlsIndex(r.sym)
  OBVIOUS
<1>9. e \in DOMAIN g /\ g[e].name = r.sym
  BY <1>7, <1>8 DEF GotTlsIndex, g
<1>10. \A n \in DOMAIN link.syms : link.syms[n].name = r.sym => n = i
  BY <1>1, <1>3 DEF Distinct
<1>11. g[e] = link.syms[i]
  BY <1>6, <1>9, <1>10
<1>12. Definition(link, r.sym) = link.syms[i]
  <2>1. (CHOOSE n \in DOMAIN link.syms : link.syms[n].name = r.sym) = i
    BY <1>3, <1>10
  <2> QED  BY <2>1 DEF Definition
<1>13. e \in Nat
  BY <1>6, <1>9
<1> QED  BY <1>8, <1>9, <1>11, <1>12, <1>13 DEF g

LEMMA TargetType ==
  ASSUME Ready, NEW r \in ToSet(link.relocs)
  PROVE  Target(r) \in Int
<1>1. ImageInv /\ link \in Links /\ IsLink(link)
  BY LinkFacts DEF Ready, LinkInv, ImageInv
<1>2. CASE r.sym \in ToSet(link.imports)
  BY <1>2, CallTarget
<1>3. CASE r.sym \notin ToSet(link.imports)
  <2>1. r.sym \in Defined(link)
    BY <1>1, <1>3 DEF IsLink
  <2>2. Definition(link, r.sym) \in Symbol /\ Definition(link, r.sym).off \in Nat
    BY <1>1, <2>1, DefinitionType
  <2>3. CASE r.type = "tpoff32"
    BY <1>1, <2>2, <2>3, TpOffType DEF Target
  <2>4. CASE r.type = "gottpoff"
    <3>1. PICK e \in Nat : e = GotTlsIndex(r.sym)
      BY <1>1, <2>4, SlotOfVariable
    <3>2. GotTlsSlot(e) \in Int
      BY AddressType DEF GotTlsSlot
    <3> QED  BY <2>4, <3>1, <3>2 DEF Target
  <2>5. CASE r.type \notin {"tpoff32", "gottpoff"}
    <3>1. AbsSym(r.sym) \in Int
      BY <2>2, AddressType DEF AbsSym
    <3> QED  BY <1>3, <2>5, <3>1 DEF Target
  <2> QED  BY <2>3, <2>4, <2>5
<1> QED  BY <1>2, <1>3

\* The linker's offset of a variable is where it is in the loader's block, exactly
\* if the segment's address has the segment's alignment.
LEMMA OffsetInBlock ==
  ASSUME Ready, Named(TlsNames) # {}, NEW s \in Symbol
  PROVE  (TpOff(s) = InBlock(s)) <=> SegmentAddress % SegmentAlign = 0
<1> DEFINE a == SegmentAlign
           m == SegmentSize
           v == SegmentAddress
           d == HeaderSize(".tdata")
<1>1. ImageInv
  BY DEF Ready, LinkInv
<1>2. a = TlsAlign /\ a \in Nat \ {0}
  BY Zenon, <1>1, AlignOfTls DEF SegmentAlign, TlsNames
<1>3. /\ d = OutputSize(".tdata") /\ HeaderSize(".tbss") = OutputSize(".tbss")
      /\ d \in Nat /\ HeaderSize(".tbss") \in Nat
  BY <1>1, SizeOfOutput DEF LinkerMade, HeaderSize
<1>4. m \in Nat /\ TlsBlockSize = AlignUp(m, a)
  BY <1>2, <1>3 DEF SegmentSize, TlsBlockSize
<1>5. v \in Nat
  BY AddressType DEF SegmentAddress
<1>6. s.off \in Nat
  BY DEF Symbol
<1>7. TpOff(s) = (IF s.sec = ".tdata" THEN s.off ELSE d + s.off) - AlignUp(m, a)
  BY <1>3, <1>4 DEF TpOff
<1>8. InBlock(s) = (0 - (m + ((0 - m - v) % a))) + s.off + (IF s.sec = ".tdata" THEN 0 ELSE d)
  BY DEF InBlock, BlockStart
<1> HIDE DEF a, m, v, d
<1>9. PICK x \in Int, y \in Int : x = (-m) % a /\ y = ((-m) - v) % a
  BY <1>2, <1>4, <1>5
<1>10. x = y <=> v % a = 0
  <2>1. -m \in Int /\ v \in Int
    BY <1>4, <1>5
  <2>2. ((-m) % a = ((-m) - v) % a) <=> v % a = 0
    BY <1>2, <2>1, SameRest
  <2> QED  BY <1>9, <2>2
<1>11. AlignUp(m, a) = m + x
  BY <1>9 DEF AlignUp
<1>12. (0 - m - v) % a = y
  <2>1. 0 - m - v = (-m) - v
    BY <1>4, <1>5
  <2> QED  BY <1>9, <2>1
<1>13. TpOff(s) = InBlock(s) <=> x = y
  <2>1. PICK o \in Nat, n \in Nat, h \in Nat : o = s.off /\ n = m /\ h = d
    BY <1>3, <1>4, <1>6
  <2>2. CASE s.sec = ".tdata"
    <3>1. TpOff(s) = o - (n + x) /\ InBlock(s) = (0 - (n + y)) + o + 0
      BY <1>7, <1>8, <1>11, <1>12, <2>1, <2>2
    <3>2. (o - (n + x) = (0 - (n + y)) + o + 0) <=> x = y
      OBVIOUS
    <3> QED  BY Zenon, <3>1, <3>2
  <2>3. CASE s.sec # ".tdata"
    <3>1. TpOff(s) = (h + o) - (n + x) /\ InBlock(s) = (0 - (n + y)) + o + h
      BY <1>7, <1>8, <1>11, <1>12, <2>1, <2>3
    <3> QED  BY <1>9, <2>1, <3>1
  <2> QED  BY <2>2, <2>3
<1> QED  BY <1>10, <1>13 DEF a, v

\* In an executable the linker's offsets, in code and in .got.tls, find the
\* variables in the loader's block exactly if the address of PT_TLS is aligned,
\* whatever the sizes and alignments of .tdata and .tbss.
THEOREM TlsFound == Spec => []TlsVariablesFound
<1>1. Ready => TlsVariablesFound
  <2> DEFINE found == SegmentAddress % SegmentAlign = 0
  <2> SUFFICES ASSUME Ready, NEW i \in DOMAIN link.relocs,
                      link.relocs[i].type \in {"tpoff32", "gottpoff"},
                      Definition(link, link.relocs[i].sym).sec \in TlsNames,
                      Named({Definition(link, link.relocs[i].sym).sec}) # {},
                      AsAsked(link.relocs[i])
               PROVE  IF link.relocs[i].type = "tpoff32"
                      THEN (words[i] - link.relocs[i].addend = InBlock(Definition(link, link.relocs[i].sym))) <=> found
                      ELSE \E e \in DOMAIN GotTlsData :
                             /\ words[i] - link.relocs[i].addend + Site(link.relocs[i]) = Address(".got.tls") + 8 * (e - 1)
                             /\ (GotTlsData[e] = InBlock(Definition(link, link.relocs[i].sym))) <=> found
    BY Zenon DEF TlsVariablesFound
  <2> DEFINE r == link.relocs[i]
             s == Definition(link, r.sym)
  <2>1. r \in ToSet(link.relocs) /\ r.addend \in Int /\ Site(r) \in Nat
    BY Written
  <2>2. ImageInv /\ link \in Links /\ IsLink(link)
    BY LinkFacts DEF Ready, LinkInv, ImageInv
  <2>3. s \in Symbol
    <3>1. r.sym \in Defined(link)
      BY <2>1, <2>2 DEF IsLink
    <3> QED  BY <2>2, <3>1, DefinitionType
  <2>4. TpOff(s) \in Int /\ (TpOff(s) = InBlock(s) <=> found)
    <3>1. Named(TlsNames) # {}
      BY DEF Named
    <3> QED  BY <2>2, <2>3, <3>1, OffsetInBlock, TpOffType
  <2>5. words[i] = Meant(r)
    BY <2>1, TargetType, WordAsked
  <2> HIDE DEF r, s, found
  <2>6. CASE r.type = "tpoff32"
    <3>1. words[i] = TpOff(s) + r.addend - 0
      BY <2>5, <2>6 DEF Meant, Target, From, s
    <3>2. words[i] - r.addend = TpOff(s)
      BY <2>1, <2>4, <3>1
    <3> QED  BY <2>4, <2>6, <3>2 DEF r, s
  <2>7. CASE r.type = "gottpoff"
    <3>1. PICK e \in DOMAIN GotTlsSyms(link) : e = GotTlsIndex(r.sym) /\ e \in Nat /\ GotTlsSyms(link)[e] = s
      BY <2>1, <2>2, <2>7, SlotOfVariable DEF s
    <3>2. e \in DOMAIN GotTlsData /\ GotTlsData[e] = TpOff(s)
      BY <3>1 DEF GotTlsData
    <3>3. words[i] = Address(".got.tls") + 8 * (e - 1) + r.addend - Site(r)
      BY <2>5, <2>7, <3>1 DEF Meant, Target, From, GotTlsSlot
    <3>4. Address(".got.tls") \in Nat
      BY AddressType
    <3>5. words[i] - r.addend + Site(r) = Address(".got.tls") + 8 * (e - 1)
      BY <2>1, <3>1, <3>3, <3>4
    <3> QED  BY <2>4, <2>7, <3>2, <3>5 DEF r, s
  <2> QED  BY <2>6, <2>7 DEF r
<1> QED  BY <1>1, FinishedIsReady, LinkInvariant, PTL DEF TlsVariablesFound

\* A 64-bit word lies in a section that has an address.
LEMMA SiteInSection ==
  ASSUME Ready, NEW r \in ToSet(link.relocs), r.type = "64"
  PROVE  \E n \in Ids : /\ image.secs[n].name = r.sec
                        /\ vma[n] \in Nat /\ Size(n) \in Nat /\ r.off \in Nat
                        /\ Site(r) = vma[n] + r.off /\ r.off + 8 <= Size(n)
<1>1. ImageInv /\ link \in Links /\ IsLink(link) /\ Distinct(link) /\ InRange(r)
  BY LinkFacts DEF Ready, LinkInv, ImageInv, IsLink
<1>2. r \in Reloc /\ r.off \in Nat
  <2>1. link.relocs \in Seq(Reloc)
    BY <1>1, LinkFacts
  <2>2. r \in Reloc
    BY <2>1 DEF ToSet
  <2> QED  BY <2>2 DEF Reloc
<1>3. r.off + 8 <= OutputSize(r.sec)
  BY <1>1 DEF InRange
<1>4. OutputOf(r.sec) # {}
  <2>1. OutputOf(r.sec) = {} => OutputSize(r.sec) = 0
    BY DEF OutputSize
  <2> QED  BY <1>2, <1>3, <2>1
<1>5. r.sec \notin LinkerMade
  BY <1>1, <1>4 DEF OutputOf, Distinct
<1>6. Named({r.sec}) = OutputOf(r.sec) /\ Named({r.sec}) # {}
  BY <1>1, <1>4, <1>5, SectionIsOutput
<1>7. PICK n : n = CHOOSE j \in Named({r.sec}) : TRUE
  OBVIOUS
<1>8. n \in Named({r.sec})
  BY <1>6, <1>7
<1>9. n \in Ids /\ image.secs[n].name = r.sec
  BY <1>8 DEF Named
<1>10. vma[n] \in Nat
  BY <1>9 DEF Ready, TypeOK
<1>11. OutputSize(r.sec) = Size(n) /\ Size(n) \in Nat
  BY <1>1, <1>5, <1>6, <1>7, SizeOfOutput
<1>12. Site(r) = vma[n] + r.off
  BY <1>6, <1>7 DEF Site, Address
<1> QED  BY <1>2, <1>3, <1>9, <1>10, <1>11, <1>12

\* Two 64-bit words at one address are the same word.
LEMMA SitesApart ==
  ASSUME Ready, NEW r \in ToSet(link.relocs), NEW q \in ToSet(link.relocs),
         r.type = "64", q.type = "64", Site(r) = Site(q)
  PROVE  r = q
<1>1. PICK n \in Ids : /\ image.secs[n].name = r.sec
                       /\ vma[n] \in Nat /\ Size(n) \in Nat /\ r.off \in Nat
                       /\ Site(r) = vma[n] + r.off /\ r.off + 8 <= Size(n)
  BY SiteInSection
<1>2. PICK m \in Ids : /\ image.secs[m].name = q.sec
                       /\ vma[m] \in Nat /\ Size(m) \in Nat /\ q.off \in Nat
                       /\ Site(q) = vma[m] + q.off /\ q.off + 8 <= Size(m)
  BY SiteInSection
<1>3. n = m
  <2> SUFFICES ASSUME n # m PROVE FALSE
    OBVIOUS
  <2>1. vma[n] + Size(n) <= vma[m] \/ vma[m] + Size(m) <= vma[n]
    BY DEF Ready, MemoryApart, Assigned, End
  <2>2. PICK v \in Nat, w \in Nat, s \in Nat, t \in Nat, x \in Nat, y \in Nat :
          v = vma[n] /\ w = vma[m] /\ s = Size(n) /\ t = Size(m) /\ x = r.off /\ y = q.off
    BY <1>1, <1>2
  <2>3. v + x = w + y /\ x + 8 <= s /\ y + 8 <= t /\ (v + s <= w \/ w + t <= v)
    BY <1>1, <1>2, <2>1, <2>2
  <2> QED  BY <2>3
<1>4. r.sec = q.sec /\ r.off = q.off
  <2>1. r.sec = q.sec
    BY <1>1, <1>2, <1>3
  <2>2. PICK v \in Nat, x \in Nat, y \in Nat : v = vma[n] /\ x = r.off /\ y = q.off
    BY <1>1, <1>2
  <2>3. v + x = v + y
    BY <1>1, <1>2, <1>3, <2>2
  <2>4. x = y
    BY <2>3
  <2> QED  BY <2>1, <2>2, <2>4
<1>5. Distinct(link)
  BY LinkFacts DEF Ready, LinkInv, ImageInv, IsLink
<1> QED  BY <1>4, <1>5 DEF Distinct

\* What an absolute word of an image that can be loaded anywhere becomes, at
\* any bias.
LEMMA WordLoaded ==
  ASSUME Ready, NEW i \in DOMAIN link.relocs, link.relocs[i].type = "64",
         IsPic(link), NEW bias
  PROVE  Loaded(i, bias) = IF HasDynamic(link) THEN bias + AbsSym(link.relocs[i].sym)
                           ELSE Meant(link.relocs[i])
<1> DEFINE r == link.relocs[i]
           fixes == {j \in DOMAIN content.relaDyn : content.relaDyn[j].at = Site(r)}
<1>1. /\ words[i] = Value(r) /\ r \in Reloc /\ r \in ToSet(link.relocs)
  BY Written
<1>2. link \in Links /\ IsLink(link) /\ Distinct(link) /\ link.relocs \in Seq(Reloc)
  BY LinkFacts DEF Ready, LinkInv, ImageInv, IsLink
<1>3. r.sym \in Defined(link)
  BY <1>1, <1>2 DEF IsLink
<1>4. Loaded(i, bias) = IF fixes = {} THEN words[i]
                        ELSE bias + content.relaDyn[CHOOSE j \in fixes : TRUE].addend
  BY Zenon DEF Loaded
<1>5. CASE HasDynamic(link)
  <2> DEFINE rel == RelativeSites(link)
             S == {n \in DOMAIN link.relocs : IsRelative(link, link.relocs[n])}
  <2>1. content = Contents
    BY <1>5 DEF Ready, LinkInv
  <2>2. content.relaDyn = [j \in DOMAIN rel |-> Relative(rel[j])]
    BY <2>1 DEF Contents
  <2>3. rel = Chosen(link.relocs, S)
    BY DEF RelativeSites
  <2>4. i \in DOMAIN link.relocs \cap S
    BY <1>3 DEF IsRelative
  <2> HIDE DEF S, rel
  <2>5. PICK j \in DOMAIN rel : rel[j] = r
    BY <1>2, <2>3, <2>4, ChosenTakes
  <2>6. \A h \in DOMAIN rel : \E n \in DOMAIN link.relocs \cap S : rel[h] = link.relocs[n]
    BY <1>2, <2>3, ChosenTakes
  <2>7. \A h \in DOMAIN rel : rel[h] \in ToSet(link.relocs) /\ rel[h].type = "64"
    BY <2>6 DEF S, IsRelative, ToSet
  <2>8. \A h \in DOMAIN rel : content.relaDyn[h].at = Site(rel[h]) /\ content.relaDyn[h].addend = AbsSym(rel[h].sym)
    BY <2>2 DEF Relative
  <2>9. DOMAIN content.relaDyn = DOMAIN rel
    BY <2>2
  <2>10. j \in fixes
    BY <2>5, <2>8, <2>9
  <2>11. \A h \in fixes : content.relaDyn[h].addend = AbsSym(r.sym)
    <3> SUFFICES ASSUME NEW h \in fixes PROVE content.relaDyn[h].addend = AbsSym(r.sym)
      OBVIOUS
    <3>1. h \in DOMAIN rel /\ Site(rel[h]) = Site(r)
      BY <2>8, <2>9
    <3>2. rel[h] = r
      BY <1>1, <2>7, <3>1, SitesApart
    <3> QED  BY <2>8, <3>1, <3>2
  <2> HIDE DEF fixes
  <2>12. (CHOOSE h \in fixes : TRUE) \in fixes
    BY <2>10
  <2>13. Loaded(i, bias) = bias + AbsSym(r.sym)
    BY Zenon, <1>4, <2>10, <2>11, <2>12
  <2> QED  BY <1>5, <2>13
<1>6. CASE ~HasDynamic(link)
  <2>1. content.relaDyn = <<>>
    BY <1>6 DEF Ready, LinkInv, NoContents
  <2>2. fixes = {}
    BY <2>1
  <2>3. words[i] = Meant(r)
    BY <1>1 DEF Value, Cut, Addend, Meant
  <2> HIDE DEF fixes, r
  <2>4. Loaded(i, bias) = Meant(r)
    BY Zenon, <1>4, <2>2, <2>3
  <2> QED  BY <1>6, <2>4 DEF r
<1> QED  BY <1>5, <1>6

\* A 32-bit word is what its relocation asks for exactly if no bits in place are
\* taken for its addend and the value fits (reloc.rs apply_reloc).  In a
\* position-independent image with dynamic sections a 64-bit word is the address
\* of its symbol at any bias of the property, without its addend; in one without
\* them it stays as it was linked (linker.rs relative_sites).
THEOREM WordsMeant == Spec => []WordsAsMeant
<1>1. Ready => WordsAsMeant
  <2> SUFFICES ASSUME Ready, NEW i \in DOMAIN link.relocs
               PROVE  /\ link.relocs[i].type # "64" => (words[i] = Meant(link.relocs[i]) <=> AsAsked(link.relocs[i]))
                      /\ link.relocs[i].type = "64" /\ IsPic(link) =>
                           \A bias \in {0, 65536} :
                             Loaded(i, bias) = IF HasDynamic(link) THEN bias + AbsSym(link.relocs[i].sym)
                                               ELSE Meant(link.relocs[i])
    BY DEF WordsAsMeant
  <2>1. Target(link.relocs[i]) \in Int
    BY Written, TargetType
  <2> QED  BY <2>1, WordAsked, WordLoaded
<1> QED  BY <1>1, FinishedIsReady, LinkInvariant, PTL DEF WordsAsMeant
=============================================================================
