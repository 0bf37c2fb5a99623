------------------------------- MODULE Regex -------------------------------
(***************************************************************************)
(* src/shim/aria_libc_regex.c: a pool of compiled patterns that also keeps *)
(* the groups of the last exec of each, and the two loops (replace_all,    *)
(* count_matches) that walk a text match by match.                         *)
(*                                                                         *)
(* regexec is the C library's and a constant here: Regexec[p][t] lists the *)
(* group offsets of the first match of p in t. One pass of a loop is one   *)
(* step; the calls without a loop are one action, and those that change    *)
(* nothing are operators.                                                  *)
(*                                                                         *)
(* Of a pattern compiled with REG_NOSUB regexec reports no offsets, and    *)
(* replace and count read a local that nothing has set: it holds one of    *)
(* Leftovers throughout the call, and a call that these offsets lead       *)
(* outside its text has strayed.                                           *)
(***************************************************************************)
EXTENDS Integers, Sequences, FiniteSets, SlotScan

(* A definition whose name has the form Action_Slip is a wrong version of  *)
(* the Action below it; the properties are checked to notice each one.     *)

CONSTANTS
  MaxRegex, MaxGroups,  (* MAX_REGEX, MAX_GROUPS                           *)
  Spare,                (* the 256 of a new output buffer's capacity       *)
  Patterns, BadPatterns,(* what regcomp accepts, and refuses               *)
  NoSub,                (* the patterns compiled with REG_NOSUB            *)
  Leftovers,            (* the offsets a local may hold that is not set    *)
  Nsub,                 (* re_nsub of each pattern                         *)
  Simple,               (* the patterns with no anchor and no empty match  *)
  Regexec,
  Texts,                (* the texts regexec is given, and their parts     *)
  ExecTexts, LoopTexts, (* the texts exec, and replace and count, are on   *)
  Replacements,
  HandleArgs, GroupArgs,
  NULL

Slots == 0..(MaxRegex - 1)
Groups == 0..(MaxGroups - 1)
NoMatch == <<>>
Offsets(t) ==
  {<<-1, -1>>} \cup {w \in (0..Len(t)) \X (0..Len(t)) : w[1] <= w[2]}
Symbols == UNION {{s[i] : i \in DOMAIN s} : s \in Texts \cup Replacements}

ASSUME SizeAssumption ==
  /\ MaxRegex \in Nat \ {0}
  /\ MaxGroups \in Nat \ {0}
  /\ Spare \in Nat \ {0}
  /\ NULL \notin Patterns /\ NULL \notin Texts
  /\ Leftovers \subseteq Int \X Int

ASSUME TextAssumption ==
  /\ ExecTexts \cup LoopTexts \subseteq Texts
  /\ Texts \cup Replacements \subseteq Seq(Symbols)
  /\ \A t \in Texts : \A i, j \in 0..Len(t) : SubSeq(t, i + 1, j) \in Texts

(* regexec reports the whole match first, inside the text it was given.    *)
ASSUME RegexecAssumption ==
  /\ Nsub \in [Patterns -> Nat]
  /\ \A p \in Patterns, t \in Texts :
       LET m == Regexec[p][t] IN
       m # NoMatch =>
         /\ m \in Seq(Offsets(t))
         /\ Len(m) = Nsub[p] + 1
         /\ m[1][1] \in 0..Len(t) /\ m[1][2] \in m[1][1]..Len(t)

(* It reports the first match: of a pattern with no anchor and no empty    *)
(* match, one that is not behind a part of the text that has a match.      *)
ASSUME SimpleAssumption ==
  /\ Simple \subseteq Patterns
  /\ \A p \in Simple, t \in Texts :
       LET m == Regexec[p][t] IN
       /\ m # NoMatch => m[1][1] < m[1][2]
       /\ \A i \in 0..Len(t) : \A j \in i..Len(t) :
            Regexec[p][SubSeq(t, i + 1, j)] # NoMatch =>
              m # NoMatch /\ m[1][1] < j

VARIABLES
  regex_pool,
  last_error,  (* whether last_error holds a message                       *)
  call,        (* the replace or count call being made: its locals, and    *)
               (* (history) the reported matches it has dealt with         *)
  match,       (* its local of that name, as regexec leaves it unset       *)
  examined     (* history: the text of the last exec since the compile     *)

vars == <<regex_pool, last_error, call, match, examined>>

Unset == <<0, 0>>

Idle == [op |-> "none", state |-> "idle", p |-> NULL, text |-> NoMatch,
         repl |-> NoMatch, cursor |-> 0, buf |-> NoMatch, cap |-> 0,
         count |-> 0, overrun |-> FALSE, cuts |-> NoMatch]

Init ==
  /\ regex_pool = [i \in Slots |->
       [compiled |-> NULL, active |-> FALSE,
        matches |-> [g \in Groups |-> <<0, 0>>], last_nmatch |-> 0]]
  /\ last_error = FALSE
  /\ call = Idle
  /\ match = Unset
  /\ examined = [i \in Slots |-> NULL]

-----------------------------------------------------------------------------
(* The pool and the groups.                                                *)

Usable(h) == h \in Slots /\ regex_pool[h].active
FreeSlots == {i \in Slots : ~regex_pool[i].active}
Running == call.state = "running"

Compile(p) ==
  LET i == FirstOf(FreeSlots) IN
  /\ FreeSlots # {}
  /\ regex_pool' = [regex_pool EXCEPT ![i].compiled = p, ![i].active = TRUE,
                                      ![i].last_nmatch = 0]
  /\ examined' = [examined EXCEPT ![i] = NULL]
  /\ last_error' = FALSE
  /\ UNCHANGED <<call, match>>

(* A pattern regcomp refuses, or a full pool: a message, and no handle.    *)
CompileFails(p) ==
  /\ p \in BadPatterns \/ FreeSlots = {}
  /\ last_error' = TRUE
  /\ UNCHANGED <<regex_pool, call, match, examined>>

Release(h) ==
  /\ Usable(h)
  /\ regex_pool' = [regex_pool EXCEPT ![h].compiled = NULL,
                                      ![h].active = FALSE,
                                      ![h].last_nmatch = 0]
  /\ examined' = [examined EXCEPT ![h] = NULL]
  /\ UNCHANGED <<last_error, call, match>>

IsMatch(p, t) == Regexec[p][t] # NoMatch

(* What exec leaves in matches: cleared, then filled by regexec.           *)
Reported_NotCleared(h, t) ==
  LET p == regex_pool[h].compiled IN
  [g \in Groups |->
     IF ~IsMatch(p, t) \/ p \in NoSub THEN regex_pool[h].matches[g]
     ELSE IF g <= Nsub[p] THEN Regexec[p][t][g + 1] ELSE <<-1, -1>>]

Reported(h, t) ==
  LET p == regex_pool[h].compiled IN
  [g \in Groups |->
     IF ~IsMatch(p, t) \/ p \in NoSub THEN <<0, 0>>
     ELSE IF g <= Nsub[p] THEN Regexec[p][t][g + 1] ELSE <<-1, -1>>]

GroupCount_NotCapped(p) == Nsub[p] + 1
GroupCount(p) == IF Nsub[p] + 1 > MaxGroups THEN MaxGroups ELSE Nsub[p] + 1

Exec(h, t) ==
  LET p == regex_pool[h].compiled IN
  /\ Usable(h)
  /\ regex_pool' = [regex_pool EXCEPT
       ![h].matches = Reported(h, t),
       ![h].last_nmatch = IF IsMatch(p, t) THEN GroupCount(p) ELSE 0]
  /\ examined' = [examined EXCEPT ![h] = t]
  /\ UNCHANGED <<last_error, call, match>>

GroupKnown(h, g) == Usable(h) /\ g \in 0..(regex_pool[h].last_nmatch - 1)
GroupStart(h, g) == IF GroupKnown(h, g) THEN regex_pool[h].matches[g][1] ELSE -1
GroupEnd(h, g) == IF GroupKnown(h, g) THEN regex_pool[h].matches[g][2] ELSE -1
GroupString(h, g, t) ==
  IF GroupEnd(h, g) - GroupStart(h, g) <= 0 THEN <<>>
  ELSE SubSeq(t, GroupStart(h, g) + 1, GroupEnd(h, g))

-----------------------------------------------------------------------------
(* replace_first, replace_all and count_matches.                           *)

Begins(op, h, t, r) ==
  [Idle EXCEPT !.op = op, !.state = "running", !.text = t, !.repl = r,
               !.p = regex_pool[h].compiled]

KeepsPool == UNCHANGED <<regex_pool, last_error, examined>>
KeepsAllButCall == UNCHANGED <<regex_pool, last_error, match, examined>>

(* Without memory for the answer, or without a pattern, a replace answers  *)
(* a copy of the text; without memory for the copy, an empty string.       *)
GaveUp(op, t, copy) ==
  [Idle EXCEPT !.op = op, !.state = "gave up", !.text = t, !.buf = copy]

GivesUp(op, t) == \E copy \in {t, <<>>} : call' = GaveUp(op, t, copy)

(* A handle of no pattern: nothing is replaced, and the count is 0.        *)
NoPattern(h, t) ==
  /\ ~Usable(h)
  /\ \/ GivesUp("first", t) \/ GivesUp("all", t)
     \/ call' = GaveUp("count", t, <<>>)
  /\ KeepsAllButCall

(* What match holds after regexec found a match of p in t.                 *)
Offset(p, t, unset) == IF p \in NoSub THEN unset ELSE Regexec[p][t][1]

(* Without a match replace_first answers a copy of the text.               *)
ReplaceFirst(h, t, r) ==
  LET p == regex_pool[h].compiled
      c == Begins("first", h, t, r) IN
  /\ Usable(h)
  /\ IF IsMatch(p, t)
     THEN \/ GivesUp("first", t)
          \/ \E unset \in Leftovers :
               LET w == Offset(p, t, unset) IN
               call' =
                 IF w[1] \in 0..Len(t) /\ w[2] \in 0..Len(t)
                 THEN [c EXCEPT !.state = "done",
                        !.cuts = IF p \in NoSub THEN <<>> ELSE <<w>>,
                        !.buf = SubSeq(t, 1, w[1]) \o r \o
                                SubSeq(t, w[2] + 1, Len(t))]
                 ELSE [c EXCEPT !.state = "strayed"]
     ELSE call' \in {[c EXCEPT !.state = "done", !.buf = t],
                     GaveUp("first", t, <<>>)}
  /\ KeepsAllButCall

StartLoop(c) ==
  /\ call' = c
  /\ match' \in IF c.p \in NoSub THEN Leftovers ELSE {Unset}

StartReplaceAll(h, t, r) ==
  LET c == [Begins("all", h, t, r) EXCEPT !.cap = 2 * Len(t) + Spare] IN
  /\ Usable(h)
  /\ \/ StartLoop(c)
     \/ GivesUp("all", t) /\ UNCHANGED match
  /\ KeepsPool

StartCount(h, t) ==
  /\ Usable(h)
  /\ StartLoop(Begins("count", h, t, <<>>))
  /\ KeepsPool

(* The rest of the text, and the offsets in it a pass goes by.             *)
Rest == SubSeq(call.text, call.cursor + 1, Len(call.text))
Matched == IsMatch(call.p, Rest)
Match == Offset(call.p, Rest, match)
Whole == <<call.cursor + Match[1], call.cursor + Match[2]>>
Dealt == IF call.p \in NoSub THEN call.cuts ELSE Append(call.cuts, Whole)
(* They lie in the rest: a count reads the end alone.                      *)
Inside ==
  /\ call.op = "all" => Match[1] \in 0..Len(Rest)
  /\ Match[2] \in 0..Len(Rest)
Found == Matched /\ Inside
(* An empty match at the end of the text: the loop breaks.                 *)
Breaks == Match[2] = 0 /\ Rest = <<>>
Pre == SubSeq(Rest, 1, Match[1])

(* The room the match needs with all that follows it and the final NUL,    *)
(* and the capacity once the buffer has grown to it.                       *)
Needed_ReplacementForgotten ==
  Len(call.buf) + Len(Pre) + (Len(Rest) - Match[2]) + 1

Needed == Len(call.buf) + Len(Pre) + Len(call.repl)
            + (Len(Rest) - Match[2]) + 1
Grown == IF Needed > call.cap THEN Needed * 2 ELSE call.cap

(* One pass: the text before the match and the replacement are copied, and *)
(* after an empty match one character more.                                *)
ReplacePass_StaysOnEmpty ==
  /\ Running /\ call.op = "all" /\ Found /\ ~Breaks
  /\ call' = [call EXCEPT
       !.buf = @ \o Pre \o call.repl,
       !.cap = Grown,
       !.cursor = @ + (IF Match[2] = 0 THEN 1 ELSE Match[2]),
       !.cuts = Dealt]
  /\ KeepsAllButCall

ReplacePass ==
  LET copied == call.buf \o Pre \o call.repl
      empty == Match[2] = 0
      cap == IF empty /\ Len(copied) + 1 >= Grown THEN Grown * 2 ELSE Grown IN
  /\ Running /\ call.op = "all" /\ Found /\ ~Breaks
  /\ call' = [call EXCEPT
       !.buf = IF empty THEN Append(copied, Head(Rest)) ELSE copied,
       !.cap = cap,
       !.overrun = @ \/ Len(copied) > Grown \/ (empty /\ Len(copied) >= cap),
       !.cursor = @ + (IF empty THEN 1 ELSE Match[2]),
       !.cuts = Dealt]
  /\ KeepsAllButCall

(* No memory to grow into.                                                 *)
ReplaceOutOfMemory ==
  /\ Running /\ call.op = "all" /\ Found /\ Needed > call.cap
  /\ GivesUp("all", call.text)
  /\ match' = Unset
  /\ KeepsPool

(* The last pass: no match is left, or an empty one at the end.            *)
ReplaceEnds ==
  LET last == Matched
      copied == IF last THEN call.buf \o call.repl ELSE call.buf
      cap == IF last THEN Grown ELSE call.cap
      room == Len(copied) + Len(Rest) + 1 IN
  /\ Running /\ call.op = "all" /\ (last => Inside /\ Breaks)
  /\ call' = [call EXCEPT
       !.state = "done",
       !.buf = copied \o Rest,
       !.cap = IF room > cap THEN room ELSE cap,
       !.overrun = @ \/ Len(copied) > cap,
       !.cuts = IF last THEN Dealt ELSE @]
  /\ KeepsAllButCall

CountPass_StaysOnEmpty ==
  /\ Running /\ call.op = "count" /\ Found
  /\ call' = [call EXCEPT !.count = (@ + 1) % 2, !.cursor = @ + Match[2]]
  /\ KeepsAllButCall

CountPass ==
  /\ Running /\ call.op = "count" /\ Found /\ ~Breaks
  /\ call' = [call EXCEPT
       !.count = @ + 1,
       !.cursor = @ + (IF Match[2] = 0 THEN 1 ELSE Match[2]),
       !.cuts = Dealt]
  /\ KeepsAllButCall

CountEnds ==
  LET last == Matched IN
  /\ Running /\ call.op = "count" /\ (last => Inside /\ Breaks)
  /\ call' = [call EXCEPT
       !.state = "done",
       !.count = IF last THEN @ + 1 ELSE @,
       !.cuts = IF last THEN Dealt ELSE @]
  /\ KeepsAllButCall

(* Offsets outside the rest of the text: what the pass reads there is not  *)
(* defined, and the model follows the call no further.                     *)
Strays ==
  /\ Running /\ Matched /\ ~Inside
  /\ call' = [call EXCEPT !.state = "strayed"]
  /\ KeepsAllButCall

(* The caller takes the answer; a program that died of a call that strayed *)
(* takes no further step.                                                  *)
Returns ==
  /\ call.state \in {"done", "gave up", "strayed"}
  /\ call' = Idle
  /\ match' = Unset
  /\ KeepsPool

-----------------------------------------------------------------------------

Loop ==
  \/ ReplacePass \/ ReplaceOutOfMemory \/ ReplaceEnds
  \/ CountPass \/ CountEnds
  \/ Strays

PoolCall ==
  \/ \E p \in Patterns : Compile(p)
  \/ \E p \in Patterns \cup BadPatterns : CompileFails(p)
  \/ \E h \in HandleArgs : Release(h) \/ \E t \in ExecTexts : Exec(h, t)

TextCall ==
  \E h \in HandleArgs, t \in LoopTexts :
    \/ StartCount(h, t)
    \/ \E r \in Replacements : ReplaceFirst(h, t, r) \/ StartReplaceAll(h, t, r)
    \/ NoPattern(h, t)

Next ==
  \/ call = Idle /\ (PoolCall \/ TextCall)
  \/ Loop
  \/ Returns

(* A call goes on until it returns: nothing in a loop waits.               *)
Spec == Init /\ [][Next]_vars /\ WF_vars(Loop)

-----------------------------------------------------------------------------
(* Properties.                                                             *)

(* The call in progress is on a pattern and a text, and inside the text.    *)
CallTypeOK ==
  /\ call.state \in {"idle", "running", "done", "gave up", "strayed"}
  /\ call.op # "none" =>
       /\ call.text \in Texts
       /\ call.state # "gave up" => call.p \in Patterns
  /\ call.cursor \in 0..Len(call.text)

(* Every variable has its type; in particular no exec stores more groups   *)
(* than a slot has room for.                                               *)
TypeOK ==
  /\ regex_pool \in [Slots ->
       [compiled : Patterns \cup {NULL}, active : BOOLEAN,
        matches : [Groups -> (Int \X Int)], last_nmatch : 0..MaxGroups]]
  /\ last_error \in BOOLEAN
  /\ CallTypeOK
  /\ match \in Int \X Int
  /\ examined \in [Slots -> ExecTexts \cup {NULL}]

(* What group_start, group_end and group_string (lines 142-173) answer,    *)
(* for any handle and group number, is about the last exec through that    *)
(* handle since it was compiled: inside its text, and the group regexec    *)
(* found there, or the empty start of it when regexec reports no groups    *)
(* (REG_NOSUB). A failed exec, a release or another pattern in the slot    *)
(* leaves no group of an earlier text behind.                              *)
GroupsTellLastExec ==
  \A h \in HandleArgs, g \in GroupArgs :
    GroupStart(h, g) # -1 \/ GroupEnd(h, g) # -1 =>
      LET p == regex_pool[h].compiled
          t == examined[h] IN
      /\ t # NULL
      /\ 0 <= GroupStart(h, g)
      /\ GroupStart(h, g) <= GroupEnd(h, g)
      /\ GroupEnd(h, g) <= Len(t)
      /\ <<GroupStart(h, g), GroupEnd(h, g)>> =
           IF p \in NoSub THEN <<0, 0>> ELSE Regexec[p][t][g + 1]
      /\ Len(GroupString(h, g, t)) = GroupEnd(h, g) - GroupStart(h, g)

(* replace_all (lines 203-272) never copies past the end of its buffer,    *)
(* whatever the lengths of text, matches and replacement, and even when    *)
(* the offsets it goes by were never set (REG_NOSUB) but lie in the text;  *)
(* the final NUL still has room. No call on a pattern with offsets strays. *)
BufferIsNotOverrun ==
  /\ ~call.overrun
  /\ call.state = "strayed" => call.p \in NoSub
  /\ call.op = "all" /\ call.state = "done" => Len(call.buf) + 1 <= call.cap

(* Character i of the text lies in one of the matches dealt with.          *)
CutBy(cuts, i) ==
  \E k \in DOMAIN cuts : cuts[k][1] < i /\ i <= cuts[k][2]

(* How many of the first i characters lie in no match, and how many        *)
(* matches end before character i.                                         *)
Kept(cuts, i) == Cardinality({x \in 1..i : ~CutBy(cuts, x)})
Before(cuts, i) == Cardinality({k \in DOMAIN cuts : cuts[k][2] < i})

(* The matches dealt with in the first i characters are disjoint, each     *)
(* behind the one before it.                                               *)
InOrder(cuts, i) ==
  /\ \A k \in DOMAIN cuts : cuts[k][1] <= cuts[k][2] /\ cuts[k][2] <= i
  /\ \A j, k \in DOMAIN cuts : j < k => cuts[j][2] <= cuts[k][1]

(* buf is the first i characters of the text with repl for each match:     *)
(* every character outside the matches is behind the kept ones and the     *)
(* replacements before it, every replacement likewise, and that is all.    *)
IsReplaced(text, cuts, repl, i, buf) ==
  /\ Len(buf) = Kept(cuts, i) + Len(cuts) * Len(repl)
  /\ \A x \in 1..i : ~CutBy(cuts, x) =>
       buf[Kept(cuts, x) + Before(cuts, x) * Len(repl)] = text[x]
  /\ \A k \in DOMAIN cuts : \A n \in 1..Len(repl) :
       buf[Kept(cuts, cuts[k][1]) + (k - 1) * Len(repl) + n] = repl[n]

(* No part of the first i characters that lies between the matches dealt   *)
(* with has a match of p.                                                  *)
LeavesNoMatch(p, text, cuts, i) ==
  \A a, b \in 0..i :
    a <= b /\ (\A x \in (a + 1)..b : ~CutBy(cuts, x)) =>
      ~IsMatch(p, SubSeq(text, a + 1, b))

(* As far as the call has looked: replace_first stops behind its match.    *)
Searched(i) ==
  IF call.op = "first" /\ call.cuts # <<>> THEN call.cuts[1][2] ELSE i

DealtWith(i) ==
  /\ InOrder(call.cuts, i)
  /\ IF call.op = "count"
     THEN call.count = Len(call.cuts)
     ELSE IsReplaced(call.text, call.cuts, call.repl, i, call.buf)
  /\ call.p \in Simple =>
       LeavesNoMatch(call.p, call.text, call.cuts, Searched(i))

(* A finished replace_first, replace_all or count_matches, on a pattern    *)
(* with offsets, dealt with disjoint matches in order; the answer is the   *)
(* text with each of them replaced, all else kept in its place, the count  *)
(* is their number, and the loops left no match between them,              *)
(* replace_first none before its own, or none at all when the text comes   *)
(* back as it was (for patterns with neither anchors nor empty matches).   *)
AnswerIsExact ==
  call.state = "done" /\ call.p \notin NoSub => DealtWith(Len(call.text))

(* The loops end, on empty matches and at the end of the text too (the     *)
(* guards of lines 242-254 and 287-289), and by offsets never set as well, *)
(* as long as they lie in the text.                                        *)
LoopsEnd == []<>~Running

(* No match of the text is dealt with twice. Line 276 says of count that   *)
(* it is the number of non-overlapping matches, line 203 of replace_all    *)
(* that all matches are replaced; but the loops look for an empty match    *)
(* only at the start of the rest (lines 242 and 287), so one found after   *)
(* some text, as that of $, is found again there.                          *)
EachMatchOnce ==
  call.state = "done" =>
    \A j, k \in DOMAIN call.cuts : j # k => call.cuts[j] # call.cuts[k]

(* What every step preserves, beside the types. The locals of a call are   *)
(* numbers and strings, and only a call in progress has a buffer:          *)
CallIsTyped ==
  /\ call \in
       [op : {"none", "first", "all", "count"},
        state : {"idle", "running", "done", "gave up", "strayed"},
        p : Patterns \cup {NULL}, text : Texts \cup {<<>>},
        repl : Replacements \cup {<<>>}, cursor : Nat, buf : Seq(Symbols),
        cap : Nat, count : Nat, overrun : BOOLEAN, cuts : Seq(Nat \X Nat)]
  /\ Running => call.op # "none"

(* the buffer has room for all that is still to be copied without another  *)
(* match:                                                                  *)
RoomIsLeft ==
  Running /\ call.op = "all" => Len(call.buf) + Len(Rest) + 1 <= call.cap

(* what the loops are past is dealt with, and of a simple pattern they     *)
(* stand at the end of a match;                                            *)
AnswerSoFar ==
  Running /\ call.p \notin NoSub =>
    /\ DealtWith(call.cursor)
    /\ call.p \in Simple => call.cursor = 0 \/ CutBy(call.cuts, call.cursor)

(* and the groups a slot tells are those regexec found in the text of its  *)
(* last exec.                                                              *)
GroupsStored(e, t) ==
  /\ e.active => e.compiled \in Patterns
  /\ e.last_nmatch > 0 =>
       /\ e.active /\ t \in ExecTexts
       /\ IsMatch(e.compiled, t)
       /\ e.last_nmatch = GroupCount(e.compiled)
       /\ \A g \in 0..(e.last_nmatch - 1) :
            e.matches[g] = IF e.compiled \in NoSub THEN <<0, 0>>
                           ELSE Regexec[e.compiled][t][g + 1]

GroupsAreStored == \A i \in Slots : GroupsStored(regex_pool[i], examined[i])

IInv ==
  /\ TypeOK
  /\ CallIsTyped
  /\ BufferIsNotOverrun
  /\ RoomIsLeft
  /\ AnswerSoFar
  /\ AnswerIsExact
  /\ GroupsAreStored
=============================================================================
