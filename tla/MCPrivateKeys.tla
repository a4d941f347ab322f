--------------------------- MODULE MCPrivateKeys ---------------------------
(***************************************************************************)
(* Small instances of PrivateKeys: ann made the space, bob may decide too, *)
(* cat is a member, and dan comes later.                                   *)
(***************************************************************************)
EXTENDS PrivateKeys

CONSTANTS ann, bob, cat, dan

RankOf == [d \in Devices |-> IF d = bob THEN 1 ELSE IF d = ann THEN 2 ELSE IF d = cat THEN 3 ELSE 4]

\* Cat is removed by ann alone.
Quiet == [online |-> {ann}, members |-> {ann, bob, cat}, new |-> {}, deciders |-> {ann}, most |-> 3,
          may |-> {<<ann, "remove", cat>>}, posts |-> {}, crashes |-> {}, hidden |-> FALSE]

\* Ann writes while her key work runs; so does bob, who may not change the key.
Alone == [Quiet EXCEPT !.posts = {ann}]
Waits == [Quiet EXCEPT !.online = {ann, bob}, !.posts = {bob}, !.most = 2]
\* Bob removes cat: both he and ann change the key.
Race == [Quiet EXCEPT !.online = {ann, bob}, !.deciders = {ann, bob}, !.may = {<<bob, "remove", cat>>}]
\* Dan comes, with the history visible or hidden.
Newcomer == [Quiet EXCEPT !.online = {ann, dan}, !.posts = {ann}, !.may = {<<ann, "admit", dan>>}]
Hidden == [Newcomer EXCEPT !.hidden = TRUE, !.most = 2]
\* Dan, who just came, is removed, and cat, while ann grants and writes.
InAndOut == [Alone EXCEPT !.members = {ann, cat, dan}, !.new = {dan}, !.may = @ \cup {<<ann, "remove", dan>>}]
\* Cat grants the key to dan as ann removes dan and writes; nobody changes the key.
LateGrant == [Alone EXCEPT !.online = {ann, cat}, !.members = {ann, cat, dan}, !.new = {dan}, !.may = {<<ann, "remove", dan>>}, !.most = 1]
\* The app restarts.
Restart == [Waits EXCEPT !.crashes = {bob}]

KeyScenes == {Alone, Waits, Race, Newcomer, Hidden, InAndOut, LateGrant, Restart}

\* Dan comes as cat is removed.
AsKeyChanges == {[Quiet EXCEPT !.members = {ann, cat, dan}, !.new = {dan}, !.online = {ann, dan}, !.most = 2]}
=============================================================================
