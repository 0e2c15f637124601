-------------------------------- MODULE Guc --------------------------------
(***************************************************************************)
(* A configuration variable of guc.c as a value: what it holds, where that *)
(* came from, what RESET returns to, and the stack that undoes SET at the  *)
(* end of transactions, subtransactions and functions with a SET option.   *)
(***************************************************************************)
EXTENDS Naturals, Sequences

CONSTANT
    Null              \* no value

\* GucSource, in order of priority.
DEFAULT  == 0
FILE     == 1
USER     == 2
OVERRIDE == 3
SESSION  == 4
GucSources == DEFAULT .. SESSION

\* The newest element of a stack, and the older ones.
Last(stack) == stack[Len(stack)]
Front(stack) == SubSeq(stack, 1, Len(stack) - 1)

StackEntries(V, maxLevel) ==
    [level : 1 .. maxLevel, state : {"SAVE", "SET", "LOCAL", "SET_LOCAL"},
     prior : V, source : GucSources, masked : V \cup {Null}]
Gucs(V, maxLevel) ==
    [val : V, source : GucSources, reset : V, resetSource : DEFAULT .. OVERRIDE,
     stack : Seq(StackEntries(V, maxLevel))]

\* InitializeOneGUCOption.
InitializeOneGUCOption(boot) ==
    [val |-> boot, source |-> DEFAULT, reset |-> boot, resetSource |-> DEFAULT,
     stack |-> <<>>]

\* push_old_value at nest level n, and what it makes of an entry of that level.
SameLevel(e, action, val) ==
    IF action = "SET" THEN [e EXCEPT !.state = "SET", !.masked = Null]
    ELSE IF action = "LOCAL" /\ e.state = "SET"
    THEN [e EXCEPT !.state = "SET_LOCAL", !.masked = val]
    ELSE e

PushOldValue(g, action, n) ==
    IF n = 0 THEN g
    ELSE [g EXCEPT !.stack =
            IF g.stack = <<>> \/ Last(g.stack).level < n
            THEN Append(g.stack, [level |-> n, state |-> action, prior |-> g.val,
                                  source |-> g.source, masked |-> Null])
            ELSE [g.stack EXCEPT ![Len(g.stack)] =
                    SameLevel(Last(g.stack), action, g.val)]]

\* Mutant: values that a transaction will restore are not brought up to date.
MakeDefaultNoStack(g, value, source) ==
    IF g.resetSource <= source
    THEN [g EXCEPT !.reset = value, !.resetSource = source] ELSE g

\* The makeDefault part of set_config_with_handle: reset and stacked values.
MakeDefaultEntry(e, value, source) ==
    IF e.source > source THEN e ELSE [e EXCEPT !.prior = value, !.source = source]
MakeDefaultStack(stack, value, source) ==
    [i \in DOMAIN stack |-> MakeDefaultEntry(stack[i], value, source)]

MakeDefault(g, value, source) ==
    LET over == g.resetSource > source IN
    [g EXCEPT !.reset = IF over THEN @ ELSE value,
              !.resetSource = IF over THEN @ ELSE source,
              !.stack = MakeDefaultStack(@, value, source)]

\* set_config_with_handle for a non-interactive source: the value is set, and
\* becomes the one to reset to, unless the present one has priority.
SetDefault(g, value, source) ==
    MakeDefault(IF g.source > source THEN g
                ELSE [g EXCEPT !.val = value, !.source = source], value, source)

\* set_config_with_handle for a SET command, RESET if value is Null.
SetInteractive(g, value, action, n) ==
    [PushOldValue(g, action, n) EXCEPT
        !.val = IF value = Null THEN g.reset ELSE value,
        !.source = IF value = Null THEN g.resetSource ELSE SESSION]

\* ProcessConfigFileInternal, for a variable no longer in the file.
NotFile(source) == IF source = FILE THEN DEFAULT ELSE source
NotFileEntry(e) == [e EXCEPT !.source = NotFile(@)]
NotFileStack(stack) == [i \in DOMAIN stack |-> NotFileEntry(stack[i])]

RemovedFromFile(g, boot) ==
    IF g.resetSource # FILE THEN g
    ELSE SetDefault([g EXCEPT !.resetSource = DEFAULT, !.source = NotFile(@),
                              !.stack = NotFileStack(@)], boot, DEFAULT)

\* AtEOXact_GUC(false, n): the oldest value of nest level n or deeper returns.
AbortGUC(g, n) ==
    LET ended == {i \in DOMAIN g.stack : g.stack[i].level >= n}
        oldest == CHOOSE i \in ended : \A j \in ended : i <= j
        e == g.stack[oldest]
    IN  IF ended = {} THEN g
        ELSE [g EXCEPT !.val = e.prior, !.source = e.source,
                       !.stack = SubSeq(@, 1, oldest - 1)]

\* The entry left of two of adjacent levels: the older one's prior value.
MergeEntries(prev, e) ==
    CASE e.state = "SET" -> [prev EXCEPT !.state = "SET", !.masked = Null]
      [] e.state = "LOCAL" ->
            IF prev.state = "SET"
            THEN [prev EXCEPT !.state = "SET_LOCAL", !.masked = e.prior]
            ELSE prev
      [] e.state = "SET_LOCAL" ->
            [prev EXCEPT !.state = "SET_LOCAL", !.masked = e.masked]

\* Mutant: SET LOCAL is undone as if it had masked a SET.
CommitGUCMasked(g, n) ==
    LET e == Last(g.stack) IN
    IF g.stack = <<>> \/ Last(g.stack).level < n \/ e.state = "SET" THEN g
    ELSE [g EXCEPT !.val = e.masked, !.source = SESSION, !.stack = Front(@)]

\* AtEOXact_GUC(true, n), n being the current level.
CommitGUC(g, n) ==
    LET e == Last(g.stack)
        rest == Front(g.stack)
        prior == [g EXCEPT !.val = e.prior, !.source = e.source, !.stack = rest]
    IN
    IF g.stack = <<>> \/ Last(g.stack).level < n THEN g
    ELSE IF e.state = "SAVE" THEN prior
    ELSE IF n = 1
    THEN CASE e.state = "SET" -> [g EXCEPT !.stack = rest]
           [] e.state = "LOCAL" -> prior
           [] e.state = "SET_LOCAL" ->
                [g EXCEPT !.val = e.masked, !.source = SESSION, !.stack = rest]
    ELSE IF rest = <<>> \/ Last(rest).level < n - 1
    THEN [g EXCEPT !.stack = [g.stack EXCEPT ![Len(g.stack)] = [e EXCEPT !.level = n - 1]]]
    ELSE [g EXCEPT !.stack = [rest EXCEPT ![Len(rest)] = MergeEntries(Last(rest), e)]]
=============================================================================
