---------------------------- MODULE MCIndexer ----------------------------
(***************************************************************************)
(* Small instances of Indexer: ann writes on two devices (logs a1, a2),    *)
(* bob on one (b1).                                                        *)
(***************************************************************************)
EXTENDS Indexer

CONSTANTS a1, a2, b1

AuthorOf == [l \in Logs |-> IF l = b1 THEN "bob" ELSE "ann"]
RankOf == [l \in Logs |-> IF l = a1 THEN 2 ELSE IF l = a2 THEN 3 ELSE 1]
EditableBy == [t \in {"post", "page", "note", "vote"} |->
                IF t = "page" THEN "permission" ELSE IF t = "note" THEN "members" ELSE "author"]

NoOne == <<a1, 0>>
put(t, on, n) == [kind |-> "put", type |-> t, on |-> on, stamp |-> n]
edit(t, on, n) == [kind |-> "edit", type |-> t, on |-> on, stamp |-> n]
delete(t, on, n) == [kind |-> "delete", type |-> t, on |-> on, stamp |-> n]
Three(x, y, z) == [l \in Logs |-> IF l = a1 THEN x ELSE IF l = a2 THEN y ELSE z]
\* Everything known and downloaded in any order, no decision, no crash.
Plain(x, y, z) ==
    [content |-> Three(x, y, z), start |-> Three(Len(x) + 1, Len(y) + 1, Len(z) + 1),
     held |-> Three(1 .. Len(x), 1 .. Len(y), 1 .. Len(z)), grows |-> FALSE, gone |-> {}, locked |-> {}, decide |-> {}, moves |-> 0,
     crashes |-> 0, reads |-> FALSE, editor |-> Three(MaxLen + 1, MaxLen + 1, MaxLen + 1)]

Late(sc, l, s) == [sc EXCEPT !.held[l] = @ \ {s}]

\* Edits of one record with equal stamps in two logs; the record may be late.
Edits == Late(Plain(<<put("note", NoOne, 1), edit("note", <<a1, 1>>, 3)>>, <<>>, <<edit("note", <<a1, 1>>, 3)>>), a1, 1)
\* Deletes in other logs than the record's, only its author's counting.
Deletes == Late(Plain(<<put("note", NoOne, 1)>>, <<delete("note", <<a1, 1>>, 4)>>,
                 <<delete("note", <<a1, 1>>, 2), edit("note", <<a1, 1>>, 3)>>), a1, 1)
\* Two votes of a member and one to come; the second may be late, cut or taken down.
Votes == [Late(Plain(<<put("vote", NoOne, 2), put("vote", NoOne, 4)>>, <<put("vote", NoOne, 3)>>, <<>>), a1, 2)
            EXCEPT !.moves = 1, !.decide = {[op |-> "cut", on |-> a1, as |-> 2],
                                            [op |-> "moderate", on |-> <<a1, 2>>, as |-> "removed"]}]
\* An edit by permission, and the permission, or the log, cut.
Rights == [Plain(<<put("page", NoOne, 1)>>, <<>>, <<put("page", NoOne, 1), edit("page", <<a1, 1>>, 3)>>)
             EXCEPT !.moves = 2, !.decide = {[op |-> "cut", on |-> b1, as |-> 2],
                                             [op |-> "rights", on |-> b1, as |-> 2]}]
\* Restarts, with a lower block still to come.
Restarts == [Late(Plain(<<put("note", NoOne, 1), edit("note", <<b1, 1>>, 3), delete("note", <<a1, 1>>, 4)>>, <<>>, <<put("note", NoOne, 2)>>), a1, 1)
               EXCEPT !.crashes = 1]
\* Moderation, with a record late; a restart after a take-down.
Moderated == [Late(Plain(<<put("post", NoOne, 1), edit("post", <<a1, 1>>, 2)>>, <<>>, <<>>), a1, 1)
               EXCEPT !.moves = 2, !.decide = {[op |-> "moderate", on |-> <<a1, 1>>, as |-> "hidden"],
                                             [op |-> "moderate", on |-> <<a1, 1>>, as |-> "shown"],
                                             [op |-> "moderate", on |-> <<a1, 1>>, as |-> "removed"]}]
TakenDown == [Moderated EXCEPT !.moves = 1, !.crashes = 1]
\* A newcomer, after a record was deleted everywhere.
Newcomer == [Plain(<<put("post", NoOne, 1), put("post", NoOne, 2), delete("post", <<a1, 1>>, 3)>>, <<>>, <<>>)
               EXCEPT !.held[a1] = {}, !.gone = {<<a1, 1>>}]
\* Reads while logs grow and locked records open; nothing is cleared.
Reading == [Plain(<<put("post", NoOne, 1), put("post", NoOne, 2)>>, <<>>, <<>>)
               EXCEPT !.start = Three(2, 1, 1), !.held = Three({}, {}, {}), !.grows = TRUE, !.reads = TRUE, !.locked = {<<a1, 2>>}]
IndexScenes == {Edits, Deletes, Votes, Rights, Restarts, Moderated, TakenDown, Newcomer, Reading}

\* A newcomer, after a record that had been edited was deleted everywhere.
AfterEdit == {[Plain(<<put("post", NoOne, 1), edit("post", <<a1, 1>>, 2), delete("post", <<a1, 1>>, 3)>>, <<>>, <<>>)
                 EXCEPT !.held[a1] = {}, !.gone = {<<a1, 1>>, <<a1, 2>>}]}
=============================================================================
