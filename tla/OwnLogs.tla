------------------------------ MODULE OwnLogs ------------------------------
(***************************************************************************)
(* The logs a member's device writes in (lib/space.js, lib/log.js), with   *)
(* the decisions that cut them: one after the other, the first that no cut *)
(* names and that carries the code its author was let back in with.        *)
(* Writes, the listener of decisions and the opening of the space run at   *)
(* the same time, and meet the decisions at every await; the process may   *)
(* end at any of them.  What a device's state has not seen yet is decided  *)
(* later here.  The logs are of the top space, and it is not private.      *)
(***************************************************************************)
EXTENDS SpaceState

CONSTANTS
    Me,           \* whose device it is
    Generations,  \* its logs in order: `log', `log/1', ...; a bound: nothing more is
                  \* decided once the last of them is reached
    Writers,      \* writes under way at the same time
    MaxStarts     \* bound: times the space is opened

ASSUME OwnAssumption ==
    /\ Me \in Ids
    /\ Generations \in Seq(Logs) /\ Len(Generations) > 0
    /\ {"open", "decided", None} \cap Writers = {} /\ None \notin {"open", "decided"}
    /\ MaxLen > 0 /\ MaxStarts \in Nat

VARIABLES
    header,     \* of each log: its code, and whether Me was banned, and cut, when it was made
    length,     \* of each log
    headers,    \* headers appended to each log
    own,        \* this.own: its generation; 0: the space is not open
    reopening,  \* this._reopening: whose run of #openOwnLog; None
    at,         \* where each process is
    gen,        \* the generation a process opens, or its write goes to
    code,       \* the code it writes in a header
    steady,     \* nothing was decided since a write looked at this.own
    owed,       \* decisions were read, and 'change' was emitted
    starts

logVars == <<header, length, headers>>
ownVars == <<logVars, own, reopening, at, gen, code, steady, owed, starts>>
allVars == <<vars, ownVars>>

Processes == Writers \cup {"open", "decided"}
Header == [made : BOOLEAN, code : Nat \cup {None}, out : BOOLEAN, cut : BOOLEAN]
NoHeader == [made |-> FALSE, code |-> None, out |-> FALSE, cut |-> FALSE]
Steps == {"idle", "uncut", "core", "header", "check", "log", "take", "append"}

OwnTypeOK ==
    /\ ContentTypeOK
    /\ header \in [Logs -> Header]
    /\ length \in [Logs -> 0..MaxLen] /\ headers \in [Logs -> Nat]
    /\ own \in 0..Len(Generations)
    /\ reopening \in Processes \cup {None}
    /\ at \in [Processes -> Steps]
    /\ gen \in [Processes -> 0..Len(Generations)]
    /\ \A p \in Processes : at[p] \in {"core", "header", "check", "append"} => gen[p] > 0
    /\ code \in [Processes -> Nat \cup {None}]
    /\ steady \in [Writers -> BOOLEAN]
    /\ owed \in BOOLEAN
    /\ starts \in 0..MaxStarts

OwnInit ==
    /\ ContentInit
    /\ header = [l \in Logs |-> NoHeader]
    /\ length = [l \in Logs |-> 0] /\ headers = [l \in Logs |-> 0]
    /\ own = 0 /\ reopening = None
    /\ at = [p \in Processes |-> "idle"]
    /\ gen = [p \in Processes |-> 0]
    /\ code = [p \in Processes |-> None]
    /\ steady = [w \in Writers |-> FALSE]
    /\ owed = FALSE /\ starts = 0

-----------------------------------------------------------------------------
Log(p) == Generations[gen[p]]
\* One block more; beyond MaxLen lengths are not told apart.
longer(l) == [length EXCEPT ![l] = IF @ < MaxLen THEN @ + 1 ELSE @]
Goes(p, step) == at' = [at EXCEPT ![p] = step]

\* A cut names the log.
isCut(l) == stateCut(Top, Me).logs[l] # Inf

\* It was cut for a permission that Me holds again.
isEditCut(l) ==
    \E p \in Permissions :
        editcut[Top][Me][p][l] # Inf /\ can(stateRole(Top, Me), p, roles)

\* It was made before Me was let back in: nobody counts it.
unadmitted(l) == mustAdmit(Top, Me, l) /\ header[l].code # admission(Top, Me)

\* Mutant: a log no cut names will do.
Outdated_cut(l) == isCut(l) \/ isEditCut(l)

Outdated(l) == isCut(l) \/ isEditCut(l) \/ unadmitted(l)

\* How much of a log counts, its header read: someone cut before writes on
\* only in a log that carries the code of the decision that let them back in.
logLimit(l) ==
    IF limitOf(Top, Me, l) > 1 /\ unadmitted(l) THEN 0 ELSE limitOf(Top, Me, l)

-----------------------------------------------------------------------------
(* #openOwnLog.                                                            *)

\* The space opens: from the first log on.
Start ==
    /\ owner # None /\ own = 0 /\ at["open"] = "idle" /\ starts < MaxStarts
    /\ starts' = starts + 1
    /\ gen' = [gen EXCEPT !["open"] = 1]
    /\ Goes("open", "core")
    /\ UNCHANGED <<vars, logVars, own, reopening, code, steady, owed>>

\* OwnLog.ready: the core is ready; an empty log gets a header, with the code
\* as it is now.
CoreReady(p) ==
    /\ at[p] = "core"
    /\ IF length[Log(p)] = 0
       THEN Goes(p, "header") /\ code' = [code EXCEPT ![p] = admission(Top, Me)]
       ELSE Goes(p, "check") /\ UNCHANGED code
    /\ UNCHANGED <<vars, logVars, own, reopening, gen, steady, owed, starts>>

\* The header is appended; block 0 is what is read back.
HeaderMade(p) ==
    /\ at[p] = "header"
    /\ length' = longer(Log(p))
    /\ headers' = [headers EXCEPT ![Log(p)] = @ + 1]
    /\ header' = IF header[Log(p)].made THEN header
                 ELSE [header EXCEPT ![Log(p)] =
                        [made |-> TRUE, code |-> code[p], out |-> stateBanned(Top, Me),
                         cut |-> stateCut(Top, Me).on]]
    /\ code' = [code EXCEPT ![p] = None]
    /\ Goes(p, "check")
    /\ UNCHANGED <<vars, own, reopening, gen, steady, owed, starts>>

\* Mutant: a run that ends stays the one under way.
Released_not(p) == UNCHANGED reopening

Released(p) == reopening' = IF reopening = p THEN None ELSE reopening

\* What follows #ownUncut: a write's log, the end of what is modelled of
\* #onDecisions and of opening the space.
Follow(p) == IF p \in Writers THEN "log" ELSE "idle"

\* This log, or the next one.
Check(p) ==
    /\ at[p] = "check"
    /\ IF Outdated(Log(p))
       THEN /\ gen[p] < Len(Generations)
            /\ gen' = [gen EXCEPT ![p] = @ + 1]
            /\ Goes(p, "core")
            /\ UNCHANGED <<own, reopening, steady>>
       ELSE /\ own' = gen[p]
            /\ Released(p)
            /\ Goes(p, Follow(p))
            /\ steady' = [w \in Writers |-> w = p \/ steady[w]]
            /\ gen' = [gen EXCEPT ![p] = 0]
    /\ UNCHANGED <<vars, logVars, code, owed, starts>>

-----------------------------------------------------------------------------
(* Who looks at this.own.                                                  *)

\* Mutant: it does not wait for the run under way.
mayLook_any(p) == TRUE

mayLook(p) == reopening = None

\* #ownUncut: once no other run is under way, the next log is opened if this
\* one does not count any more and Me may write.
OwnUncut(p) ==
    /\ at[p] = "uncut" /\ mayLook(p)
    /\ IF canWrite(Top, Me) /\ Outdated(Generations[own])
       THEN /\ own < Len(Generations)
            /\ reopening' = p
            /\ gen' = [gen EXCEPT ![p] = own + 1]
            /\ Goes(p, "core")
       ELSE Goes(p, Follow(p)) /\ UNCHANGED <<reopening, gen>>
    /\ steady' = [w \in Writers |-> w = p \/ steady[w]]
    /\ UNCHANGED <<vars, logVars, own, code, owed, starts>>

\* #onDecisions, run by 'change'.
OnDecisions ==
    /\ owed /\ own # 0 /\ at["decided"] = "idle"
    /\ owed' = FALSE
    /\ Goes("decided", "uncut")
    /\ UNCHANGED <<vars, logVars, own, reopening, gen, code, steady, starts>>

\* A write passes #mayPost.
MayPost(w) ==
    /\ own # 0 /\ at[w] = "idle" /\ canWrite(Top, Me)
    /\ Goes(w, "uncut")
    /\ UNCHANGED <<vars, logVars, own, reopening, gen, code, steady, owed, starts>>

\* #log: the directory accepts this.own, at its first record.
AcceptLog(w) ==
    /\ at[w] = "log"
    /\ Goes(w, "take")
    /\ UNCHANGED <<vars, logVars, own, reopening, gen, code, steady, owed, starts>>

\* Accepted: the write goes to what this.own is now.
TakeLog(w) ==
    /\ at[w] = "take"
    /\ gen' = [gen EXCEPT ![w] = own]
    /\ Goes(w, "append")
    /\ UNCHANGED <<vars, logVars, own, reopening, code, steady, owed, starts>>

\* Within the write limit and sealed: the record is appended.
AppendRecord(w) ==
    /\ at[w] = "append"
    /\ length' = longer(Log(w))
    /\ Goes(w, "idle")
    /\ gen' = [gen EXCEPT ![w] = 0]
    /\ steady' = [steady EXCEPT ![w] = FALSE]
    /\ UNCHANGED <<vars, header, headers, own, reopening, code, owed, starts>>

-----------------------------------------------------------------------------
(* What the others do, and the process's end.                              *)

\* Deciders name logs there are, up to a length that was written.
NamesWritten ==
    \A l \in Logs :
        LET named == {cut'[Top][Me].logs[l]} \cup {editcut'[Top][Me][p][l] : p \in Permissions}
        IN  \A n \in named \ {Inf} : n <= length[l] /\ length[l] > 0

\* The last log is being opened, or there.
LastReached ==
    \/ \E p \in Processes : gen[p] = Len(Generations)
    \/ length[Generations[Len(Generations)]] > 0

Decide ==
    /\ ~ LastReached
    /\ DecisionNext
    /\ NamesWritten
    /\ owed' = TRUE
    /\ steady' = [w \in Writers |-> FALSE]
    /\ UNCHANGED <<logVars, own, reopening, at, gen, code, starts>>

\* What the logs and the index hold stays.
Crash ==
    /\ own # 0 \/ at["open"] # "idle"
    /\ starts < MaxStarts
    /\ own' = 0 /\ reopening' = None
    /\ at' = [p \in Processes |-> "idle"]
    /\ gen' = [p \in Processes |-> 0]
    /\ code' = [p \in Processes |-> None]
    /\ steady' = [w \in Writers |-> FALSE]
    /\ owed' = FALSE
    /\ UNCHANGED <<vars, logVars, starts>>

Opens(p) == CoreReady(p) \/ HeaderMade(p) \/ Check(p) \/ OwnUncut(p)
Writes(w) == AcceptLog(w) \/ TakeLog(w) \/ AppendRecord(w)

OwnNext ==
    \/ Decide
    \/ Start
    \/ \E p \in Processes : Opens(p)
    \/ \E w \in Writers : MayPost(w)
    \/ \E w \in Writers : Writes(w)
    \/ OnDecisions
    \/ Crash

\* Every await of a process settles, and one that waits for another's run goes
\* on when it ends; nobody has to decide or to write.
OwnSpec ==
    /\ OwnInit /\ [][OwnNext]_allVars
    /\ \A p \in Processes : WF_allVars(Opens(p))
    /\ \A w \in Writers : WF_allVars(Writes(w))

-----------------------------------------------------------------------------
(* Properties.                                                             *)

\* A log has one header, its first block, whoever opens it while others do and
\* wherever the process ends: two writes that find their log cut at the same
\* time open the next one once.
OneHeader ==
    \A l \in Logs : headers[l] <= 1 /\ (length[l] > 0 => header[l].made)

\* Nothing lands in a log that does not count: a write goes, if Me may write and
\* nothing was decided since it last looked, to a log that counts without a
\* limit for what Me may do, after any cuts, admissions and restarts.
NothingInCut ==
    \A w \in Writers :
        at[w] = "append" /\ steady[w] /\ canWrite(Top, Me) =>
            /\ logLimit(Log(w)) = Inf
            /\ \A p \in Permissions :
                can(stateRole(Top, Me), p, roles) => editLimit(Top, Me, p, Log(w)) = Inf

\* A log that someone who was cut makes while banned, and no cut names, never
\* counts, let back in or not.  (Of the roles that may always post: a custom
\* role without `post' is entered by an invite's step without a new code, and
\* whoever holds one keeps the code of an earlier admission.)
PreparedLogsStayOut ==
    \A l \in Logs :
        /\ header[l].out /\ header[l].cut
        /\ cut[Top][Me].logs[l] = Inf
        /\ stateRole(Top, Me) \in {"admin", "moderator", "member", "guest"}
        /\ stateMember(Top, Me) # NoEntry
        => logLimit(l) = 0

\* A write ends, however many others wait for the same log to be opened: the
\* run they wait for always ends.
WritesEnd == \A w \in Writers : at[w] # "idle" ~> at[w] = "idle"
=============================================================================
