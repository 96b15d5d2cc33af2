---------------------------- MODULE RunQueueMC ----------------------------
(***************************************************************************)
(* Builds of four tasks for TLC.  Each family has what one part of the run *)
(* queue needs to happen.                                                  *)
(***************************************************************************)
EXTENDS RunQueue

FourTasks == 1..4

Chain == <<{}, {1}, {2}, {3}>>
Diamond == <<{}, {1}, {1}, {2, 3}>>
Join == <<{}, {}, {1}, {2, 3}>>
Fork == <<{}, {}, {1, 2}, {3}>>

Build(depends, setscene) ==
  [depends |-> depends, setscene |-> setscene, hard |-> [s \in setscene |-> {}],
   pn |-> <<"a", "b", "c", "d">>, hash |-> <<0, 0, 0, 0>>, targets |-> {4},
   noexec |-> {}, limited |-> {}, stamp |-> {}, sstamp |-> {}, halt |-> FALSE]

\* Every choice of setscene tasks in a chain, and two in parallel.
Chains == {Build(Chain, s) : s \in SUBSET FourTasks} \union {Build(Diamond, {2, 3})}

\* A task whose new hash moves one above it, which covers other tasks too.
Moves == {Build(Join, s) : s \in {{1, 4}, {1, 2, 4}}}

\* Two recipes of one name, in two multiconfigs.
Twins ==
  {[Build(g, s) EXCEPT !.pn = <<"a", "a", "b", "c">>] :
     g \in {Join, Fork}, s \in {{1, 2}, {1, 2, 3}}}

\* Hard dependencies between setscene tasks, a task that only has a stamp,
\* and twins one of which cannot do without the other.
HardDeps ==
  {[Build(Diamond, s) EXCEPT !.hard = (3 :> h) @@ @, !.noexec = {2}] :
     s \in {{1, 2, 3}, {1, 2, 3, 4}}, h \in {{1}, {2}}}
  \union
  {[Build(Diamond, {1, 2, 3}) EXCEPT !.hard = (3 :> {2}) @@ @, !.pn = <<"a", "b", "b", "c">>]}

\* What an earlier build left: two tasks of one recipe with stamps, and the
\* first failure ends the build.
Rebuilds ==
  {b \in {[Build(Chain, {2, 4}) EXCEPT !.pn = <<"a", "a", "b", "b">>, !.noexec = {3},
                                        !.stamp = st, !.sstamp = ss, !.halt = TRUE] :
            st \in {{1}, {1, 2}, {1, 3}, {4}}, ss \in {{}, {2}}} :
     b.stamp \intersect b.sstamp = {}}

AllBuilds == Chains \union Moves \union Twins \union HardDeps \union Rebuilds

-----------------------------------------------------------------------------
(* Builds for the runs that show where the code's words do not hold.       *)

\* A deferred twin with a hard dependency.
LateTwin ==
  {[Build(<<{}, {}, {1}, {1}>>, FourTasks)
      EXCEPT !.hard = (3 :> {1}) @@ (4 :> {1}) @@ @, !.pn = <<"a", "b", "b", "d">>,
             !.targets = {2, 3, 4}]}

\* Twins whose hashes come to be equal only while the build runs.
MovedTwins ==
  {[Build(Diamond, {1, 2, 3}) EXCEPT !.pn = <<"a", "b", "b", "c">>, !.hash = <<0, 0, 1, 0>>]}

\* Three tasks of a name that runs one at a time, and one target for each.
Limited ==
  {[Build(<<{}, {}, {}, {1}>>, s) EXCEPT !.targets = {2, 3, 4}, !.limited = {1, 2, 3}] :
     s \in {{}, {4}}}
=============================================================================
