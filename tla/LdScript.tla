------------------------------ MODULE LdScript ------------------------------
(* The linker script of -T as oxide-ld reads it (script.rs): line by line,   *)
(* a line being a sequence of tokens, into output sections with the patterns *)
(* of the input sections that go there, after which each input section is    *)
(* given the first output section with a pattern that matches its name.      *)
(* A name is the sequence of its parts, dots apart: .text.hot is             *)
(* <<".", "text", ".", "hot">>.  A token is a pattern (or another name), with *)
(* or without a star before and behind it, or one of the marks; "*(" is the   *)
(* star for any file with the parenthesis behind it.                         *)
EXTENDS Integers, Sequences, SequencesExt

Punct(t) == [t |-> t, lead |-> FALSE, name |-> <<>>, star |-> FALSE]
Pat(name, star) == [t |-> "pat", lead |-> FALSE, name |-> name, star |-> star]
Known == {<<".", n>> : n \in {"text", "data", "rodata", "bss", "interp", "init_array",
                             "fini_array", "preinit_array", "tdata", "tbss"}}
Nowhere == <<>>

Family(n) == {Pat(<<".", n>>, FALSE), Pat(<<".", n, ".">>, TRUE)}
Default ==
  LET Out(n, patterns) == [name |-> <<".", n>>, patterns |-> patterns] IN
  <<Out("interp", {Pat(<<".", "interp">>, FALSE)}), Out("text", Family("text")), Out("rodata", Family("rodata")),
    Out("init_array", Family("init_array") \cup Family("ctors")),
    Out("fini_array", Family("fini_array") \cup Family("dtors"))>>
  \o [i \in 1..4 |-> LET n == <<"preinit_array", "tdata", "tbss", "data">>[i] IN Out(n, Family(n))]
  \o <<Out("bss", Family("bss") \cup {Pat(<<"COMMON">>, FALSE)})>>

IsPat(token) == token.t = "pat"
Has(line, t) == \E i \in DOMAIN line : line[i].t = t
IndexOf(line, t) == CHOOSE i \in DOMAIN line : line[i].t = t /\ \A j \in 1..(i-1) : line[j].t # t

\* The stars before the first name of a chunk are taken off; kept is what then begins with a dot, and COMMON.
FirstOfChunk(tokens, i) == i = 1 \/ tokens[i - 1].t \in {"*(", ")", "{", "}"}
Unstarred(pat) == [pat EXCEPT !.lead = FALSE]
Taken(pat) ==
  /\ ~pat.lead /\ pat.name # <<>>
  /\ Head(pat.name) = "." \/ (pat.name = <<"COMMON">> /\ ~pat.star)
CollectPatterns(tokens) ==
  LET pats == {i \in DOMAIN tokens : IsPat(tokens[i])}
  IN {p \in {IF FirstOfChunk(tokens, i) THEN Unstarred(tokens[i]) ELSE tokens[i] : i \in pats} : Taken(p)}

\* What stands before the colon, be it one name or not, gets a dot if it has none.
Dotted(name) == IF name # <<>> /\ Head(name) = "." THEN name ELSE <<".">> \o name
OutName(tokens) ==
  Dotted(FlattenSeq([i \in DOMAIN tokens |-> IF IsPat(tokens[i]) THEN tokens[i].name ELSE <<tokens[i].t>>]))

\* One line; s is [entry, inside, current, collected, sections], current a sequence of at most one output section.
Line(s, line) ==
  CASE line = <<>> -> s
    [] line # <<>> /\ line[1].t = "ENTRY" -> [s EXCEPT !.entry = line[2].name]
    [] line # <<>> /\ line[1].t = "SECTIONS" -> [s EXCEPT !.inside = TRUE, !.collected = <<>>]
    [] line # <<>> /\ line[1].t \notin {"ENTRY", "SECTIONS"} ->
       IF ~s.inside THEN s
       ELSE IF line[1].t = "}" /\ s.current = <<>>
       THEN [s EXCEPT !.inside = FALSE, !.collected = <<>>,
                      !.sections = IF s.collected = <<>> THEN @ ELSE s.collected]
       ELSE IF Has(line, ":")
       THEN LET colon == IndexOf(line, ":")
                out   == [name |-> OutName(SubSeq(line, 1, colon - 1)),
                          patterns |-> CollectPatterns(SubSeq(line, colon + 1, Len(line)))]
            IN IF Has(SubSeq(line, colon + 1, Len(line)), "}")
               THEN [s EXCEPT !.collected = @ \o s.current \o <<out>>, !.current = <<>>]
               ELSE [s EXCEPT !.collected = @ \o s.current, !.current = <<out>>]
       ELSE IF s.current = <<>> THEN s
       ELSE LET out == [s.current[1] EXCEPT !.patterns = @ \cup CollectPatterns(line)]
            IN IF Has(line, "}") THEN [s EXCEPT !.collected = @ \o <<out>>, !.current = <<>>]
               ELSE [s EXCEPT !.current = <<out>>]
Parse(lines) ==
  LET start == [entry |-> <<"_start">>, inside |-> FALSE, current |-> <<>>, collected |-> <<>>, sections |-> Default]
      end   == FoldLeft(Line, start, lines)
      all   == end.collected \o end.current
  IN [entry |-> end.entry, sections |-> IF all = <<>> THEN end.sections ELSE all]

\* .* matches what * does: the dot before it goes with the star.
PatternMatch(pat, name) ==
  IF ~pat.star THEN pat.name = name
  ELSE IsPrefix(IF Last(pat.name) = "." THEN Front(pat.name) ELSE pat.name, name)
Matching(sections, name) ==
  {s \in DOMAIN sections : \E p \in sections[s].patterns : PatternMatch(p, name)}
Fallback(name) == IF name \in Known THEN name ELSE Nowhere
First(sections, some) == sections[CHOOSE s \in some : \A t \in some : s <= t].name
MapInputSectionToLast(sections, name) ==    \* a mutation: the last output section that matches gets it
  LET some == Matching(sections, name)
  IN IF some = {} THEN Fallback(name) ELSE sections[CHOOSE s \in some : \A t \in some : s >= t].name
MapInputSection(sections, name) ==
  LET some == Matching(sections, name) IN IF some = {} THEN Fallback(name) ELSE First(sections, some)
----------------------------------------------------------------------------
(* What a script says, wherever its lines end: an output section is a name,  *)
(* a colon and the patterns up to the brace; a star behind a pattern stands   *)
(* for the rest of a name, one before it for its beginning.                   *)
Said(lines) ==
  LET tokens == FlattenSeq(lines)
      colons == SelectSeq([i \in DOMAIN tokens |-> i], LAMBDA i : tokens[i].t = ":")
      Close(i) == CHOOSE j \in (i + 1)..Len(tokens) : tokens[j].t = "}" /\ \A k \in (i + 1)..(j - 1) : tokens[k].t # "}"
  IN IF colons = <<>> THEN Default
     ELSE [c \in DOMAIN colons |->
             [name     |-> tokens[colons[c] - 1].name,
              patterns |-> {t \in {tokens[i] : i \in colons[c]..Close(colons[c])} : IsPat(t)}]]
SaidFor(pat, name) ==
  \E k \in IF pat.lead THEN 1..(Len(name) + 1) ELSE {1} :
    LET rest == SubSeq(name, k, Len(name)) IN IF pat.star THEN IsPrefix(pat.name, rest) ELSE pat.name = rest
Speaking(sections, name) == {s \in DOMAIN sections : \E p \in sections[s].patterns : SaidFor(p, name)}
SaidPlace(sections, name) ==
  LET some == Speaking(sections, name)
  IN IF some = {} THEN Fallback(name) ELSE First(sections, some)

\* Output sections that are not read as they stand: on the line of SECTIONS, or not the first of their line.
Overlooked(lines) ==
  \E l \in DOMAIN lines : \E i \in DOMAIN lines[l] :
    lines[l][i].t = ":" /\ (lines[l][1].t = "SECTIONS" \/ \E j \in 1..(i-1) : lines[l][j].t \in {":", "}"})
\* All others are read, under their names with a dot and with the patterns that are taken, a star before one taken off.
ReadAs(parsed, said) ==
  /\ DOMAIN parsed = DOMAIN said
  /\ \A s \in DOMAIN said :
       /\ parsed[s].name = Dotted(said[s].name)
       /\ parsed[s].patterns \subseteq {p \in {Unstarred(q) : q \in said[s].patterns} : Taken(p)}
       /\ {p \in said[s].patterns : Taken(p)} \subseteq parsed[s].patterns

\* A name ends, or goes on without a dot, after what stands before a pattern's ".*".
DotIgnored(sections, name) ==
  \E s \in DOMAIN sections : \E pat \in sections[s].patterns :
    /\ pat.star /\ pat.name # <<>> /\ Last(pat.name) = "."
    /\ IsPrefix(Front(pat.name), name) /\ ~IsPrefix(pat.name, name)
\* The name's output section speaks of it only in patterns with a star before them, or without a dot.
NotTaken(sections, name) ==
  \E s \in Speaking(sections, name) :
    /\ \A t \in Speaking(sections, name) : s <= t
    /\ \A pat \in sections[s].patterns : SaidFor(pat, name) => ~Taken(pat)
\* The name's output section has a name without a dot.
Undotted(sections, name) ==
  \E s \in DOMAIN sections :
    SaidPlace(sections, name) = sections[s].name /\ Dotted(sections[s].name) # sections[s].name
=============================================================================
