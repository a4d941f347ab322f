---------------------------- MODULE MCDirectory ----------------------------
(***************************************************************************)
(* Small instances of Directory: ann and bob hold logs k1 to k3.           *)
(***************************************************************************)
EXTENDS Directory

CONSTANTS ann, bob, k1, k2, k3

PathOf == [k \in Keys |-> IF k = k1 THEN <<1, 1>> ELSE IF k = k2 THEN <<1, 2>> ELSE <<2, 1>>]
All(x, y, z) == [k \in Keys |-> IF k = k1 THEN x ELSE IF k = k2 THEN y ELSE z]

\* Both hold all, nobody writes, and nothing goes wrong.
Calm == [own |-> All(ann, bob, None), course |-> All(<<Inf>>, <<Inf>>, <<Inf>>), bad |-> {}, grows |-> All(0, 0, 0),
         holds |-> [m \in Members |-> All(2, 2, 2)], stage |-> [m \in Members |-> All(1, 1, 1)],
         initiates |-> {<<ann, bob>>}, slow |-> 0, breaks |-> 0, crashes |-> {}, reads |-> {}, idle |-> {},
         known |-> {ann, bob}]

\* Bob is new, and holds more of his own log.
Newcomer == [Calm EXCEPT !.holds = [m \in Members |-> IF m = ann THEN All(1, 2, 2) ELSE All(0, 3, 2)], !.known = {ann}]
\* Ann writes in her log, which bob hears of; reads and has closed; or has closed
\* while she has more of another.
Growing == {[Calm EXCEPT !.holds = [m \in Members |-> IF m = ann THEN All(n, 2, 2) ELSE All(0, 2, 2)],
                         !.grows = All(n + 1, 0, 0)] : n \in 0 .. 1}
Used == [Calm EXCEPT !.grows = All(3, 0, 0), !.reads = {<<bob, k1>>}, !.idle = {k1}]
Meanwhile == [Calm EXCEPT !.holds[ann] = All(2, 2, 3), !.grows = All(3, 0, 0)]
\* Two authors are let in late, more than may wait; one is cut, or put out.
Late == [Calm EXCEPT !.holds = [m \in Members |-> IF m = ann THEN All(1, 2, 1) ELSE All(0, 2, 0)],
                     !.course = All(<<0, Inf>>, <<Inf>>, <<0, Inf>>), !.stage[ann] = All(2, 1, 2)]
Cut == [Calm EXCEPT !.holds[ann] = All(3, 2, 2), !.course = All(<<Inf, 2>>, <<Inf>>, <<Inf>>)]
Out == [Calm EXCEPT !.course = All(<<Inf, 1>>, <<Inf>>, <<Inf>>), !.reads = {<<bob, k1>>}]
\* Ann names a log nobody may keep, and one with a bad header (a peer may name any).
Strange == [Calm EXCEPT !.holds[bob] = All(0, 2, 0), !.course = All(<<0>>, <<Inf>>, <<Inf>>), !.bad = {k3}]
\* More logs than may be fetched and wait, some of them bad; or the connection breaks.
Crowd == [Calm EXCEPT !.own = All(None, None, None),
                      !.holds = [m \in Members |-> IF m = ann THEN All(1, 1, 1) ELSE All(0, 0, 0)]]
Many == {[Crowd EXCEPT !.breaks = 1], [Crowd EXCEPT !.bad = {k1, k2}]}
\* It breaks as bob fetches a header or more of a log; bob restarts.
Breaks == {[Calm EXCEPT !.holds[bob] = h, !.breaks = 1] : h \in {All(0, 2, 2), All(2, 2, 1)}}
Restarts == [Calm EXCEPT !.holds[ann] = All(3, 2, 2), !.crashes = {bob}, !.idle = {k1}]
Slow == [Calm EXCEPT !.holds[bob] = All(0, 2, 2), !.slow = 1]

DirScenes == {Newcomer, Used, Meanwhile, Late, Cut, Out, Strange, Restarts} \cup Many \cup Growing \cup Breaks
SlowScenes == {Slow}
=============================================================================
