----------------------------- MODULE OwnProofs -----------------------------
(***************************************************************************)
(* A device's own logs, for any number of writes at the same time, logs,   *)
(* restarts and decisions: each log gets one header (OneHeader), and one   *)
(* made ready while banned stays out (PreparedLogsStayOut), where every    *)
(* role an app defines may post.                                           *)
(***************************************************************************)
EXTENDS OwnLogs, StateProofs

-----------------------------------------------------------------------------
(* Types.                                                                  *)

\* The generations of logs, and the processes, told apart.
LEMMA OwnFacts ==
    /\ Len(Generations) \in Nat \ {0}
    /\ \A g \in 1..Len(Generations) : Generations[g] \in Logs
    /\ None \notin Processes /\ Writers \subseteq Processes
    /\ "open" \in Processes /\ "decided" \in Processes
    /\ "open" \notin Writers /\ "decided" \notin Writers
    /\ MaxLen \in Nat \ {0}
<1>1. Len(Generations) \in Nat \ {0} /\ \A g \in 1..Len(Generations) : Generations[g] \in Logs
  BY OwnAssumption
<1>2. None \notin Processes /\ "open" \notin Writers /\ "decided" \notin Writers
  BY OwnAssumption DEF Processes
<1>3. MaxLen \in Nat \ {0}
  BY OwnAssumption, BoundAssumption
<1> QED
  BY <1>1, <1>2, <1>3 DEF Processes

\* What is opened, or written to, is a log.
LEMMA LogOfProcess ==
    ASSUME OwnTypeOK, NEW p \in Processes, at[p] \in {"core", "header", "check", "append"}
    PROVE  Log(p) \in Logs /\ gen[p] \in 1..Len(Generations)
<1>1. gen[p] \in 1..Len(Generations)
  BY OwnFacts DEF OwnTypeOK
<1> QED
  BY <1>1, OwnFacts DEF Log

\* The code that counts is the number of a decision, or there is none.
LEMMA AdmissionType ==
    ASSUME ContentTypeOK
    PROVE  admission(Top, Me) \in Nat \cup {None}
<1> DEFINE c == chainOf(Top)
           coded == {i \in DOMAIN c : admit[c[i]][Me] # None}
           first == CHOOSE i \in coded : \A j \in coded : i <= j
<1>1. c \in Seq(Scopes) /\ \A i \in DOMAIN c : c[i] \in Scopes
  BY ChainType DEF ContentTypeOK, Scopes
<1>2. CASE coded = {}
  BY <1>2 DEF admission
<1>3. CASE coded # {}
  <2>1. coded \subseteq Nat
    BY <1>1
  <2>2. first \in coded
    <3> HIDE DEF coded
    <3> QED
      BY <1>3, <2>1, LeastIsOne
  <2>3. c[first] \in Scopes
    BY <1>1, <2>2
  <2>4. admit[c[first]][Me] \in Nat \cup {None}
    BY <2>3, OwnAssumption DEF ContentTypeOK, TypeOK
  <2> QED
    BY <1>3, <2>4 DEF admission
<1> QED
  BY <1>2, <1>3

\* Nothing is open and nothing written at first.
LEMMA OwnTypeInit == OwnInit => OwnTypeOK
<1> SUFFICES ASSUME OwnInit PROVE OwnTypeOK
  OBVIOUS
<1>1. ContentTypeOK
  BY ContentTypeInit DEF OwnInit
<1>2. header \in [Logs -> Header]
  BY DEF OwnInit, Header, NoHeader
<1>3. length \in [Logs -> 0..MaxLen] /\ headers \in [Logs -> Nat]
  BY OwnFacts DEF OwnInit
<1>4. own \in 0..Len(Generations) /\ gen \in [Processes -> 0..Len(Generations)] /\ starts \in 0..MaxStarts
  BY OwnFacts, OwnAssumption DEF OwnInit
<1>5. at \in [Processes -> Steps] /\ \A p \in Processes : at[p] = "idle"
  BY DEF OwnInit, Steps
<1>6. code \in [Processes -> Nat \cup {None}] /\ steady \in [Writers -> BOOLEAN]
  BY DEF OwnInit
<1> QED
  BY <1>1, <1>2, <1>3, <1>4, <1>5, <1>6 DEF OwnInit, OwnTypeOK

\* Only decisions change the view.
LEMMA DecidedStep == [OwnNext]_allVars => [DecisionNext]_vars
  BY DEF OwnNext, Decide, Start, Opens, CoreReady, HeaderMade, Check, OwnUncut, MayPost,
         Writes, AcceptLog, TakeLog, AppendRecord, OnDecisions, Crash, allVars

\* A log has a length, whatever is appended.
LEMMA LongerType ==
    ASSUME OwnTypeOK, NEW l \in Logs
    PROVE  longer(l) \in [Logs -> 0..MaxLen]
  BY OwnFacts DEF OwnTypeOK, longer

\* #openOwnLog and #ownUncut keep the types.
LEMMA OpensType ==
    ASSUME OwnTypeOK, ContentTypeOK', NEW p \in Processes, Opens(p)
    PROVE  OwnTypeOK'
<1> USE OwnFacts
<1>1. CASE CoreReady(p)
  <2>1. Log(p) \in Logs /\ gen[p] \in 1..Len(Generations)
    BY <1>1, LogOfProcess DEF CoreReady
  <2>2. code' \in [Processes -> Nat \cup {None}]
    <3>1. admission(Top, Me) \in Nat \cup {None}
      BY AdmissionType DEF OwnTypeOK
    <3> QED
      BY <1>1, <3>1 DEF CoreReady, OwnTypeOK
  <2>3. at' \in [Processes -> Steps] /\ \A q \in Processes : at'[q] \in {at[q], "header", "check"}
    BY <1>1 DEF CoreReady, OwnTypeOK, Goes, Steps
  <2>4. \A q \in Processes : at'[q] \in {"core", "header", "check", "append"} => gen[q] > 0
    BY <1>1, <2>1 DEF CoreReady, OwnTypeOK, Goes
  <2> QED
    BY <1>1, <2>2, <2>3, <2>4 DEF CoreReady, OwnTypeOK, logVars
<1>2. CASE HeaderMade(p)
  <2>1. Log(p) \in Logs /\ gen[p] \in 1..Len(Generations)
    BY <1>2, LogOfProcess DEF HeaderMade
  <2>2. length' \in [Logs -> 0..MaxLen]
    BY <1>2, <2>1, LongerType DEF HeaderMade
  <2>3. header' \in [Logs -> Header]
    <3> DEFINE h == [made |-> TRUE, code |-> code[p], out |-> stateBanned(Top, Me),
                     cut |-> stateCut(Top, Me).on]
    <3>1. stateBanned(Top, Me) \in BOOLEAN
      BY DEF stateBanned, bannedIn
    <3>2. stateCut(Top, Me).on \in BOOLEAN
      BY DEF stateCut
    <3>3. code[p] \in Nat \cup {None}
      BY DEF OwnTypeOK
    <3>4. h \in Header
      <4> HIDE DEF h
      <4>1. h = [made |-> TRUE, code |-> code[p], out |-> stateBanned(Top, Me),
                 cut |-> stateCut(Top, Me).on]
        BY DEF h
      <4> QED
        BY <3>1, <3>2, <3>3, <4>1 DEF Header
    <3>5. header' = header \/ header' = [header EXCEPT ![Log(p)] = h]
      BY <1>2 DEF HeaderMade
    <3> HIDE DEF h
    <3> QED
      BY <2>1, <3>4, <3>5 DEF OwnTypeOK
  <2>4. headers' \in [Logs -> Nat]
    BY <1>2, <2>1 DEF HeaderMade, OwnTypeOK
  <2>5. at' \in [Processes -> Steps] /\ code' \in [Processes -> Nat \cup {None}]
    BY <1>2 DEF HeaderMade, OwnTypeOK, Goes, Steps
  <2>6. \A q \in Processes : at'[q] \in {"core", "header", "check", "append"} => gen[q] > 0
    BY <1>2, <2>1 DEF HeaderMade, OwnTypeOK, Goes
  <2> QED
    BY <1>2, <2>2, <2>3, <2>4, <2>5, <2>6 DEF HeaderMade, OwnTypeOK
<1>3. CASE Check(p)
  <2>1. gen[p] \in 1..Len(Generations)
    BY <1>3, LogOfProcess DEF Check
  <2>2. CASE Outdated(Log(p))
    <3>1. gen' \in [Processes -> 0..Len(Generations)] /\ at' \in [Processes -> Steps]
      <4>1. gen[p] + 1 \in 0..Len(Generations) /\ gen' = [gen EXCEPT ![p] = gen[p] + 1]
        BY <1>3, <2>1, <2>2 DEF Check
      <4>2. at' = [at EXCEPT ![p] = "core"]
        BY <1>3, <2>2 DEF Check, Goes
      <4> QED
        BY <4>1, <4>2 DEF OwnTypeOK, Steps
    <3>2. \A q \in Processes : at'[q] \in {"core", "header", "check", "append"} => gen'[q] > 0
      <4>1. gen' = [gen EXCEPT ![p] = gen[p] + 1] /\ at' = [at EXCEPT ![p] = "core"]
        BY <1>3, <2>2 DEF Check, Goes
      <4> QED
        BY <2>1, <4>1 DEF OwnTypeOK
    <3> QED
      BY <1>3, <2>2, <3>1, <3>2 DEF Check, OwnTypeOK, logVars
  <2>3. CASE ~ Outdated(Log(p))
    <3>1. gen' \in [Processes -> 0..Len(Generations)] /\ own' \in 0..Len(Generations)
      BY <1>3, <2>1, <2>3 DEF Check, OwnTypeOK
    <3>2. at' \in [Processes -> Steps] /\ at'[p] \in {"log", "idle"}
      BY <1>3, <2>3 DEF Check, OwnTypeOK, Goes, Steps, Follow
    <3>3. \A q \in Processes : at'[q] \in {"core", "header", "check", "append"} => gen'[q] > 0
      BY <1>3, <2>3, <3>2 DEF Check, OwnTypeOK, Goes
    <3>4. steady' \in [Writers -> BOOLEAN]
      BY <1>3, <2>3 DEF Check, OwnTypeOK
    <3>5. reopening' \in Processes \cup {None}
      BY <1>3, <2>3 DEF Check, OwnTypeOK, Released
    <3> QED
      BY <1>3, <2>3, <3>1, <3>2, <3>3, <3>4, <3>5 DEF Check, OwnTypeOK, logVars
  <2> QED
    BY <2>2, <2>3
<1>4. CASE OwnUncut(p)
  <2>1. steady' \in [Writers -> BOOLEAN]
    BY <1>4 DEF OwnUncut, OwnTypeOK
  <2>2. \/ /\ gen' = [gen EXCEPT ![p] = own + 1] /\ own + 1 \in 1..Len(Generations)
           /\ reopening' = p /\ at' = [at EXCEPT ![p] = "core"]
        \/ UNCHANGED <<gen, reopening>> /\ at' = [at EXCEPT ![p] = Follow(p)]
    BY <1>4 DEF OwnUncut, OwnTypeOK, Goes
  <2>3. Follow(p) \in {"log", "idle"}
    BY DEF Follow
  <2>4. /\ gen' \in [Processes -> 0..Len(Generations)] /\ reopening' \in Processes \cup {None}
        /\ at' \in [Processes -> Steps]
        /\ \A q \in Processes : at'[q] \in {"core", "header", "check", "append"} => gen'[q] > 0
    <3>1. CASE /\ gen' = [gen EXCEPT ![p] = own + 1] /\ own + 1 \in 1..Len(Generations)
               /\ reopening' = p /\ at' = [at EXCEPT ![p] = "core"]
      BY <3>1 DEF OwnTypeOK, Steps
    <3>2. CASE UNCHANGED <<gen, reopening>> /\ at' = [at EXCEPT ![p] = Follow(p)]
      BY <2>3, <3>2 DEF OwnTypeOK, Steps
    <3> QED
      BY <2>2, <3>1, <3>2
  <2> QED
    BY <1>4, <2>1, <2>4 DEF OwnUncut, OwnTypeOK, logVars
<1> QED
  BY <1>1, <1>2, <1>3, <1>4 DEF Opens

\* Until the space is open, only its opening runs.
Awake == own = 0 => \A p \in Processes \ {"open"} : at[p] = "idle"

\* Every step keeps the types, if none but the opening runs before the space is open.
LEMMA OwnTypeStep == OwnTypeOK /\ Awake /\ [OwnNext]_allVars => OwnTypeOK'
<1> SUFFICES ASSUME OwnTypeOK, Awake, [OwnNext]_allVars PROVE OwnTypeOK'
  OBVIOUS
<1> USE OwnFacts
<1>0. ContentTypeOK'
  BY DecidedStep, ContentTypeStep DEF OwnTypeOK
<1>1. ASSUME NEW p \in Processes, Opens(p) PROVE OwnTypeOK'
  BY <1>0, <1>1, OpensType
<1>2. CASE Decide
  BY <1>0, <1>2 DEF Decide, OwnTypeOK, logVars
<1>3. CASE Start
  <2>1. starts + 1 \in 0..MaxStarts
    BY <1>3, OwnAssumption DEF Start, OwnTypeOK
  <2>2. gen' \in [Processes -> 0..Len(Generations)] /\ at' \in [Processes -> Steps]
    BY <1>3 DEF Start, Goes, OwnTypeOK, Steps
  <2>3. \A q \in Processes : at'[q] \in {"core", "header", "check", "append"} => gen'[q] > 0
    BY <1>3 DEF Start, Goes, OwnTypeOK
  <2> QED
    BY <1>0, <1>3, <2>1, <2>2, <2>3 DEF Start, OwnTypeOK, logVars
<1>4. CASE OnDecisions \/ \E w \in Writers : MayPost(w) \/ AcceptLog(w)
  <2>1. at' \in [Processes -> Steps]
    BY <1>4 DEF OnDecisions, MayPost, AcceptLog, Goes, OwnTypeOK, Steps
  <2>2. \A q \in Processes : at'[q] \in {at[q], "uncut", "take"}
    BY <1>4 DEF OnDecisions, MayPost, AcceptLog, Goes, OwnTypeOK
  <2> QED
    BY <1>0, <1>4, <2>1, <2>2 DEF OnDecisions, MayPost, AcceptLog, OwnTypeOK, logVars
<1>5. ASSUME NEW w \in Writers, AppendRecord(w) PROVE OwnTypeOK'
  <2>1. Log(w) \in Logs
    BY <1>5, LogOfProcess DEF AppendRecord
  <2>2. length' \in [Logs -> 0..MaxLen]
    BY <1>5, <2>1, LongerType DEF AppendRecord
  <2>3. at' \in [Processes -> Steps] /\ gen' \in [Processes -> 0..Len(Generations)]
    BY <1>5 DEF AppendRecord, Goes, OwnTypeOK, Steps
  <2>4. \A q \in Processes : at'[q] \in {"core", "header", "check", "append"} => gen'[q] > 0
    BY <1>5 DEF AppendRecord, Goes, OwnTypeOK
  <2> QED
    BY <1>0, <1>5, <2>2, <2>3, <2>4 DEF AppendRecord, OwnTypeOK
<1>6. CASE Crash
  <2>1. at' \in [Processes -> Steps] /\ \A q \in Processes : at'[q] = "idle"
    BY <1>6 DEF Crash, Steps
  <2>2. /\ gen' \in [Processes -> 0..Len(Generations)] /\ code' \in [Processes -> Nat \cup {None}]
        /\ steady' \in [Writers -> BOOLEAN] /\ own' \in 0..Len(Generations)
    BY <1>6 DEF Crash
  <2> QED
    BY <1>0, <1>6, <2>1, <2>2 DEF Crash, OwnTypeOK, logVars
<1>7. CASE UNCHANGED allVars
  BY <1>0, <1>7 DEF allVars, ownVars, logVars, OwnTypeOK
<1>8. ASSUME NEW w \in Writers, TakeLog(w) PROVE OwnTypeOK'
  <2>1. own \in 1..Len(Generations)
    BY <1>8 DEF TakeLog, Awake, OwnTypeOK
  <2>2. at' = [at EXCEPT ![w] = "append"] /\ gen' = [gen EXCEPT ![w] = own]
    BY <1>8 DEF TakeLog, Goes
  <2>3. at' \in [Processes -> Steps] /\ gen' \in [Processes -> 0..Len(Generations)]
    BY <2>1, <2>2 DEF OwnTypeOK, Steps
  <2>4. \A q \in Processes : at'[q] \in {"core", "header", "check", "append"} => gen'[q] > 0
    BY <2>1, <2>2 DEF OwnTypeOK
  <2> QED
    BY <1>0, <1>8, <2>3, <2>4 DEF TakeLog, OwnTypeOK, logVars
<1> QED
  BY <1>1, <1>2, <1>3, <1>4, <1>5, <1>6, <1>7, <1>8 DEF OwnNext, Writes

\* Nothing but Crash closes the space, and then nothing runs.
LEMMA AwakeStep == OwnTypeOK /\ Awake /\ [OwnNext]_allVars => Awake'
<1> SUFFICES ASSUME OwnTypeOK, Awake, [OwnNext]_allVars, own' = 0,
                    NEW p \in Processes \ {"open"}
             PROVE  at'[p] = "idle"
  BY DEF Awake
<1> USE OwnFacts
<1>1. CASE own = 0
  <2>1. \A q \in Processes \ {"open"} : at[q] = "idle"
    BY <1>1 DEF Awake
  <2>2. ASSUME NEW q \in Processes, Opens(q) PROVE at'[p] = "idle"
    <3>1. at[q] # "idle"
      BY <2>2 DEF Opens, CoreReady, HeaderMade, Check, OwnUncut
    <3>2. q = "open"
      BY <2>1, <3>1
    <3>3. at'[p] = at[p]
      BY <2>2, <3>2 DEF Opens, CoreReady, HeaderMade, Check, OwnUncut, Goes, OwnTypeOK
    <3> QED
      BY <2>1, <3>3
  <2>3. ASSUME NEW w \in Writers, MayPost(w) \/ Writes(w) PROVE at'[p] = "idle"
    BY <1>1, <2>1, <2>3 DEF MayPost, Writes, AcceptLog, TakeLog, AppendRecord
  <2>4. CASE Decide \/ Start \/ OnDecisions \/ Crash \/ UNCHANGED allVars
    BY <1>1, <2>1, <2>4 DEF Decide, Start, OnDecisions, Crash, Goes, OwnTypeOK, allVars, ownVars
  <2> QED
    BY <2>2, <2>3, <2>4 DEF OwnNext
<1>2. CASE own # 0
  <2>1. Crash
    <3>1. ASSUME NEW q \in Processes, Opens(q) PROVE own' # 0
      <4>1. Check(q) => gen[q] # 0
        BY LogOfProcess DEF Check
      <4> QED
        BY <1>2, <3>1, <4>1 DEF Opens, CoreReady, HeaderMade, Check, OwnUncut
    <3> QED
      BY <1>2, <3>1 DEF OwnNext, Decide, Start, OnDecisions, MayPost, Writes, AcceptLog,
                        TakeLog, AppendRecord, allVars, ownVars
  <2> QED
    BY <2>1 DEF Crash
<1> QED
  BY <1>1, <1>2

\* A device's logs, and the processes that open and write them, are well formed
\* at every await, whatever is decided and wherever the process ends.
THEOREM OwnTypeCorrect == OwnSpec => []OwnTypeOK
<1>1. OwnInit => Awake
  BY DEF OwnInit, Awake
<1> QED
  BY <1>1, OwnTypeInit, OwnTypeStep, AwakeStep, PTL DEF OwnSpec

-----------------------------------------------------------------------------
(* One header.  OneHeader is not inductive: a second process past `core'   *)
(* would append a second one.  At most one process opens a log at a time,  *)
(* the one the others wait for (OneOpens), it makes a header only where    *)
(* there is nothing, and what is written to has one (HeadersSound).        *)

Opening == {"core", "header", "check"}

OneOpens ==
    /\ own # 0 => \A p \in Processes : at[p] \in Opening => reopening = p
    /\ at["open"] \in Opening \cup {"idle"}

HeadersSound ==
    /\ \A l \in Logs : /\ headers[l] = IF length[l] > 0 THEN 1 ELSE 0
                       /\ length[l] > 0 <=> header[l].made
    /\ \A p \in Processes : at[p] = "header" => length[Log(p)] = 0
    /\ \A p \in Processes : at[p] \in {"check", "append"} => length[Log(p)] > 0
    /\ own # 0 => length[Generations[own]] > 0

OwnInv == OwnTypeOK /\ Awake /\ OneOpens /\ HeadersSound

\* Two processes that open a log are one.
LEMMA OpenerIsOne ==
    ASSUME OwnInv, NEW p \in Processes, NEW q \in Processes, at[p] \in Opening, at[q] \in Opening
    PROVE  p = q
  BY DEF OwnInv, Awake, OneOpens, Opening

\* Who waits for the run under way starts another only once it ended.
LEMMA OneOpensStep == OwnInv /\ [OwnNext]_allVars => OneOpens'
<1> SUFFICES ASSUME OwnInv, [OwnNext]_allVars PROVE OneOpens'
  OBVIOUS
<1> USE OwnFacts DEF OwnInv
<1>1. ASSUME NEW p \in Processes, CoreReady(p) \/ HeaderMade(p) PROVE OneOpens'
  <2>1. at[p] \in Opening /\ UNCHANGED <<own, reopening>>
    BY <1>1 DEF CoreReady, HeaderMade, Opening
  <2>2. \E step \in Opening : at' = [at EXCEPT ![p] = step]
    BY <1>1 DEF CoreReady, HeaderMade, Goes, Opening
  <2> QED
    BY <2>1, <2>2 DEF OneOpens, OwnTypeOK
<1>2. ASSUME NEW p \in Processes, Check(p) PROVE OneOpens'
  <2>1. at[p] \in Opening
    BY <1>2 DEF Check, Opening
  <2>2. CASE Outdated(Log(p))
    <3>1. at' = [at EXCEPT ![p] = "core"] /\ UNCHANGED <<own, reopening>>
      BY <1>2, <2>2 DEF Check, Goes
    <3> QED
      BY <2>1, <3>1 DEF OneOpens, OwnTypeOK, Opening
  <2>3. CASE ~ Outdated(Log(p))
    <3>1. at' = [at EXCEPT ![p] = Follow(p)]
      BY <1>2, <2>3 DEF Check, Goes
    <3>2. Follow(p) \notin Opening /\ (p = "open" => Follow(p) = "idle")
      BY DEF Follow, Opening
    <3>3. \A q \in Processes : q # p => at[q] \notin Opening
      BY <2>1, OpenerIsOne
    <3>4. \A q \in Processes : at'[q] \notin Opening
      BY <3>1, <3>2, <3>3 DEF OwnTypeOK
    <3> QED
      BY <3>1, <3>2, <3>4 DEF OneOpens, OwnTypeOK
  <2> QED
    BY <2>2, <2>3
<1>3. ASSUME NEW p \in Processes, OwnUncut(p) PROVE OneOpens'
  <2>1. at[p] = "uncut" /\ reopening = None /\ own' = own
    BY <1>3 DEF OwnUncut, mayLook
  <2>2. p # "open"
    BY <2>1 DEF OneOpens, Opening
  <2>3. own # 0
    BY <2>1, <2>2 DEF Awake
  <2>4. \A q \in Processes : at[q] \notin Opening
    BY <2>1, <2>3 DEF OneOpens
  <2>5. \/ reopening' = p /\ at' = [at EXCEPT ![p] = "core"]
        \/ reopening' = None /\ at' = [at EXCEPT ![p] = Follow(p)]
    BY <1>3, <2>1 DEF OwnUncut, Goes
  <2>6. Follow(p) \notin Opening
    BY DEF Follow, Opening
  <2> QED
    BY <2>2, <2>4, <2>5, <2>6 DEF OneOpens, OwnTypeOK
<1>4. CASE Start
  <2>1. own' = 0 /\ at' = [at EXCEPT !["open"] = "core"]
    BY <1>4 DEF Start, Goes
  <2> QED
    BY <2>1 DEF OneOpens, OwnTypeOK, Opening
<1>5. CASE OnDecisions \/ \E w \in Writers : MayPost(w) \/ Writes(w)
  <2>1. PICK p \in Processes \ {"open"}, step \in {"uncut", "take", "append", "idle"} :
            at' = [at EXCEPT ![p] = step]
    BY <1>5 DEF OnDecisions, MayPost, Writes, AcceptLog, TakeLog, AppendRecord, Goes
  <2>2. UNCHANGED <<own, reopening>>
    BY <1>5 DEF OnDecisions, MayPost, Writes, AcceptLog, TakeLog, AppendRecord
  <2> QED
    BY <2>1, <2>2 DEF OneOpens, OwnTypeOK, Opening
<1>6. CASE Decide \/ UNCHANGED allVars
  <2>1. UNCHANGED <<own, reopening, at>>
    BY <1>6 DEF Decide, allVars, ownVars
  <2> QED
    BY <2>1 DEF OneOpens
<1>7. CASE Crash
  BY <1>7 DEF Crash, OneOpens
<1> QED
  BY <1>1, <1>2, <1>3, <1>4, <1>5, <1>6, <1>7 DEF OwnNext, Opens

\* A block more makes a log longer, and no other.
LEMMA LongerIs ==
    ASSUME OwnTypeOK, NEW l \in Logs
    PROVE  /\ longer(l)[l] > 0
           /\ \A m \in Logs : m # l => longer(l)[m] = length[m]
  BY OwnFacts DEF OwnTypeOK, longer

\* A header is made where there is none, and records follow one.
LEMMA HeadersSoundStep == OwnInv /\ [OwnNext]_allVars => HeadersSound'
<1> SUFFICES ASSUME OwnInv, [OwnNext]_allVars PROVE HeadersSound'
  OBVIOUS
<1> USE OwnFacts DEF OwnInv
<1>1. ASSUME NEW p \in Processes, CoreReady(p) PROVE HeadersSound'
  <2>1. Log(p) \in Logs /\ length[Log(p)] \in Nat
    BY <1>1, LogOfProcess DEF CoreReady, OwnTypeOK
  <2>2. UNCHANGED <<length, headers, header, own, gen>>
    BY <1>1 DEF CoreReady, logVars
  <2>3. at' = [at EXCEPT ![p] = IF length[Log(p)] = 0 THEN "header" ELSE "check"]
    BY <1>1 DEF CoreReady, Goes
  <2>4. \A q \in Processes : /\ q # p => at'[q] = at[q]
                             /\ at'[p] = IF length[Log(p)] = 0 THEN "header" ELSE "check"
    BY <2>3 DEF OwnTypeOK
  <2>5. \A q \in Processes : at'[q] = "header" => length[Log(q)] = 0
    BY <2>1, <2>4 DEF HeadersSound
  <2>6. \A q \in Processes : at'[q] \in {"check", "append"} => length[Log(q)] > 0
    BY <2>1, <2>4 DEF HeadersSound
  <2> QED
    BY <2>2, <2>5, <2>6 DEF HeadersSound, Log
<1>2. ASSUME NEW p \in Processes, HeaderMade(p) PROVE HeadersSound'
  <2> DEFINE l == Log(p)
  <2>1. l \in Logs /\ at[p] = "header" /\ UNCHANGED <<own, gen>>
    BY <1>2, LogOfProcess DEF HeaderMade
  <2>2. length[l] = 0 /\ headers[l] = 0 /\ ~ header[l].made
    BY <2>1 DEF HeadersSound
  <2>3. length' = longer(l) /\ headers' = [headers EXCEPT ![l] = headers[l] + 1]
    BY <1>2 DEF HeaderMade
  <2>4. header'[l].made /\ \A m \in Logs : m # l => header'[m] = header[m]
    BY <1>2, <2>1, <2>2 DEF HeaderMade, OwnTypeOK
  <2>5. length'[l] > 0 /\ \A m \in Logs : m # l => length'[m] = length[m]
    BY <2>1, <2>3, LongerIs
  <2>6. \A m \in Logs : /\ headers'[m] = IF length'[m] > 0 THEN 1 ELSE 0
                        /\ length'[m] > 0 <=> header'[m].made
    BY <2>1, <2>2, <2>3, <2>4, <2>5 DEF HeadersSound, OwnTypeOK
  <2>7. at' = [at EXCEPT ![p] = "check"]
    BY <1>2 DEF HeaderMade, Goes
  <2>8. \A q \in Processes : at'[q] # "header"
    BY <2>1, <2>7, OpenerIsOne DEF Opening, OwnTypeOK
  <2>9. \A q \in Processes : at'[q] \in {"check", "append"} => length'[Log(q)] > 0
    <3> SUFFICES ASSUME NEW q \in Processes, at'[q] \in {"check", "append"}
                 PROVE  length'[Log(q)] > 0
      OBVIOUS
    <3>1. CASE q = p
      BY <2>5, <3>1
    <3>2. CASE q # p
      <4>1. at[q] \in {"check", "append"}
        BY <2>7, <3>2 DEF OwnTypeOK
      <4>2. Log(q) \in Logs /\ length[Log(q)] > 0
        BY <4>1, LogOfProcess DEF HeadersSound
      <4> QED
        BY <2>2, <2>5, <4>2
    <3> QED
      BY <3>1, <3>2
  <2>10. own # 0 => length'[Generations[own]] > 0
    <3>1. own # 0 => Generations[own] \in Logs /\ length[Generations[own]] > 0
      BY DEF HeadersSound, OwnTypeOK
    <3> QED
      BY <2>2, <2>5, <3>1
  <2> QED
    BY <2>1, <2>6, <2>8, <2>9, <2>10 DEF HeadersSound, Log
<1>3. ASSUME NEW p \in Processes, Check(p) PROVE HeadersSound'
  <2>1. at[p] = "check" /\ UNCHANGED <<length, headers, header>>
    BY <1>3 DEF Check, logVars
  <2>2. length[Log(p)] > 0
    BY <2>1 DEF HeadersSound
  <2>3. /\ \E step \in {"core", "log", "idle"} : at' = [at EXCEPT ![p] = step]
        /\ \E g : gen' = [gen EXCEPT ![p] = g]
    BY <1>3 DEF Check, Goes, Follow
  <2>4. /\ at'[p] \notin {"header", "check", "append"}
        /\ \A q \in Processes : q # p => at'[q] = at[q] /\ gen'[q] = gen[q]
    BY <2>3 DEF OwnTypeOK
  <2>5. own' = own \/ own' = gen[p]
    BY <1>3 DEF Check
  <2> QED
    BY <2>1, <2>2, <2>4, <2>5 DEF HeadersSound, Log
<1>4. ASSUME NEW p \in Processes, OwnUncut(p) PROVE HeadersSound'
  <2>1. UNCHANGED <<length, headers, header, own>>
    BY <1>4 DEF OwnUncut, logVars
  <2>2. \E step \in {"core", "log", "idle"} : at' = [at EXCEPT ![p] = step]
    BY <1>4 DEF OwnUncut, Goes, Follow
  <2>3. gen' = gen \/ gen' = [gen EXCEPT ![p] = own + 1]
    BY <1>4 DEF OwnUncut
  <2>4. /\ at'[p] \notin {"header", "check", "append"}
        /\ \A q \in Processes : q # p => at'[q] = at[q] /\ gen'[q] = gen[q]
    BY <2>2, <2>3 DEF OwnTypeOK
  <2> QED
    BY <2>1, <2>4 DEF HeadersSound, Log
<1>5. CASE Start
  <2>1. UNCHANGED <<length, headers, header>> /\ own' = 0
    BY <1>5 DEF Start, logVars
  <2>2. /\ at'["open"] = "core"
        /\ \A q \in Processes : q # "open" => at'[q] = at[q] /\ gen'[q] = gen[q]
    BY <1>5 DEF Start, Goes, OwnTypeOK
  <2> QED
    BY <2>1, <2>2 DEF HeadersSound, Log
<1>6. CASE OnDecisions \/ \E w \in Writers : MayPost(w) \/ AcceptLog(w)
  <2>1. UNCHANGED <<length, headers, header, own, gen>>
    BY <1>6 DEF OnDecisions, MayPost, AcceptLog, logVars
  <2>2. \A q \in Processes : at'[q] \in {at[q], "uncut", "take"}
    BY <1>6 DEF OnDecisions, MayPost, AcceptLog, Goes, OwnTypeOK
  <2> QED
    BY <2>1, <2>2 DEF HeadersSound, Log
<1>7. ASSUME NEW w \in Writers, TakeLog(w) PROVE HeadersSound'
  <2>1. own # 0 /\ length[Generations[own]] > 0
    BY <1>7 DEF TakeLog, Awake, HeadersSound
  <2>2. /\ at'[w] = "append" /\ gen'[w] = own
        /\ \A q \in Processes : q # w => at'[q] = at[q] /\ gen'[q] = gen[q]
    BY <1>7 DEF TakeLog, Goes, OwnTypeOK
  <2>3. UNCHANGED <<length, headers, header, own>>
    BY <1>7 DEF TakeLog, logVars
  <2> QED
    BY <2>1, <2>2, <2>3 DEF HeadersSound, Log
<1>8. ASSUME NEW w \in Writers, AppendRecord(w) PROVE HeadersSound'
  <2> DEFINE l == Log(w)
  <2>1. l \in Logs /\ length[l] > 0
    BY <1>8, LogOfProcess DEF AppendRecord, HeadersSound
  <2>2. length' = longer(l) /\ UNCHANGED <<headers, header, own>>
    BY <1>8 DEF AppendRecord
  <2>3. \A m \in Logs : length'[m] > 0 <=> length[m] > 0
    BY <2>1, <2>2, LongerIs
  <2>4. \A m \in Logs : length[m] \in Nat /\ length'[m] \in Nat
    BY <2>1, <2>2, LongerType DEF OwnTypeOK
  <2>5. \A q \in Processes : q # w => at'[q] = at[q] /\ gen'[q] = gen[q]
    BY <1>8 DEF AppendRecord, Goes, OwnTypeOK
  <2>6. at'[w] = "idle"
    BY <1>8 DEF AppendRecord, Goes, OwnTypeOK
  <2>7. ASSUME NEW q \in Processes
        PROVE  /\ at'[q] = "header" => length'[Log(q)'] = 0
               /\ at'[q] \in {"check", "append"} => length'[Log(q)'] > 0
    <3>1. at'[q] \in {"header", "check", "append"} => q # w
      BY <2>6
    <3>2. at'[q] \in {"header", "check", "append"} => Log(q)' = Log(q) /\ Log(q) \in Logs
      BY <2>5, <3>1, LogOfProcess DEF Log
    <3> QED
      BY <2>3, <2>4, <2>5, <3>1, <3>2 DEF HeadersSound
  <2>8. \A m \in Logs : /\ headers'[m] = IF length'[m] > 0 THEN 1 ELSE 0
                        /\ length'[m] > 0 <=> header'[m].made
    BY <2>2, <2>3 DEF HeadersSound
  <2>9. own' # 0 => length'[Generations[own']] > 0
    <3>1. own # 0 => Generations[own] \in Logs /\ length[Generations[own]] > 0
      BY DEF HeadersSound, OwnTypeOK
    <3> QED
      BY <2>2, <2>3, <3>1
  <2> QED
    BY <2>7, <2>8, <2>9 DEF HeadersSound
<1>9. CASE Decide \/ UNCHANGED allVars
  <2>1. UNCHANGED <<length, headers, header, own, at, gen>>
    BY <1>9 DEF Decide, allVars, ownVars, logVars
  <2> QED
    BY <2>1 DEF HeadersSound, Log
<1>10. CASE Crash
  <2>1. UNCHANGED <<length, headers, header>> /\ own' = 0 /\ \A q \in Processes : at'[q] = "idle"
    BY <1>10 DEF Crash, logVars
  <2> QED
    BY <2>1 DEF HeadersSound
<1> QED
  BY <1>1, <1>2, <1>3, <1>4, <1>5, <1>6, <1>7, <1>8, <1>9, <1>10 DEF OwnNext, Opens, Writes

\* At first no log has a header and nobody opens one.
LEMMA OwnInvInit == OwnInit => OwnInv
<1> SUFFICES ASSUME OwnInit PROVE OwnInv
  OBVIOUS
<1>1. OwnTypeOK
  BY OwnTypeInit
<1>2. Awake /\ OneOpens
  BY OwnFacts DEF OwnInit, Awake, OneOpens
<1>3. HeadersSound
  BY DEF OwnInit, HeadersSound, NoHeader
<1> QED
  BY <1>1, <1>2, <1>3 DEF OwnInv

\* Each part is kept, given the others.
LEMMA OwnInvStep == OwnInv /\ [OwnNext]_allVars => OwnInv'
<1> SUFFICES ASSUME OwnInv, [OwnNext]_allVars PROVE OwnInv'
  OBVIOUS
<1> QED
  BY OwnTypeStep, AwakeStep, OneOpensStep, HeadersSoundStep DEF OwnInv

\* However many writes, and the listener of decisions, find the device's log cut
\* at the same time, and wherever the process ends, #ownUncut and OwnLog.ready
\* give each log one header, before any record.
THEOREM HeaderSafe == OwnSpec => []OneHeader
<1>1. OwnInv => OneHeader
  BY DEF OwnInv, HeadersSound, OneHeader, OwnTypeOK
<1> QED
  BY <1>1, OwnInvInit, OwnInvStep, PTL DEF OwnSpec

-----------------------------------------------------------------------------
(* Nothing in a log that does not count.  A write that looked at its log   *)
(* since the last decision found one that is not outdated, and whoever     *)
(* opens another meanwhile leaves one that is not either (Current).        *)

Current ==
    \A w \in Writers : steady[w] /\ canWrite(Top, Me) =>
        /\ at[w] \in {"log", "take"} => ~ Outdated(Generations[own])
        /\ at[w] = "append" => ~ Outdated(Log(w))

\* What is decided and a log's header say whether it is outdated.
LEMMA OutdatedSame ==
    ASSUME NEW l, UNCHANGED vars, header'[l] = header[l]
    PROVE  Outdated(l)' = Outdated(l)
  BY DEF Outdated, isCut, isEditCut, unadmitted, mustAdmit, admission, stateCut, stateRole,
         stateMember, stateBanned, bannedIn, chainOf, can, vars, memberVars, contentVars,
         personVars, spaceVars, keyVars, cutVars, inviteVars

\* Whether Me may write is decided.
LEMMA WriteSame ==
    ASSUME UNCHANGED vars
    PROVE  canWrite(Top, Me)' = canWrite(Top, Me)
  BY DEF canWrite, stateRole, stateMember, stateBanned, bannedIn, chainOf, can, vars, memberVars,
         contentVars, personVars, spaceVars, keyVars, cutVars, inviteVars

\* Only a decision makes outdated what a write found current.
LEMMA CurrentStep == OwnInv /\ Current /\ [OwnNext]_allVars => Current'
<1> SUFFICES ASSUME OwnInv, Current, [OwnNext]_allVars, NEW w \in Writers,
                    steady'[w], canWrite(Top, Me)'
             PROVE  /\ at'[w] \in {"log", "take"} => ~ Outdated(Generations[own])'
                    /\ at'[w] = "append" => ~ Outdated(Log(w))'
  BY DEF Current
<1> DEFINE Now == /\ at'[w] \in {"log", "take"} => ~ Outdated(Generations[own])'
                  /\ at'[w] = "append" => ~ Outdated(Log(w))'
           Was == /\ at[w] \in {"log", "take"} => ~ Outdated(Generations[own])
                  /\ at[w] = "append" => ~ Outdated(Log(w))
<1> SUFFICES Now
  OBVIOUS
<1> USE OwnFacts DEF OwnInv
<1>1. ASSUME UNCHANGED vars, steady[w] PROVE Was
  BY <1>1, WriteSame DEF Current
<1>2. ASSUME UNCHANGED <<vars, header>>, NEW l PROVE Outdated(l)' <=> Outdated(l)
  BY <1>2, OutdatedSame
<1>3. ASSUME NEW p \in Processes, CoreReady(p) PROVE Now
  <2>1. UNCHANGED <<vars, header, own, gen, steady>>
    BY <1>3 DEF CoreReady, logVars
  <2>2. at'[w] \in {at[w], "header", "check"}
    BY <1>3 DEF CoreReady, Goes, OwnTypeOK
  <2> QED
    BY <1>1, <1>2, <2>1, <2>2 DEF Log
<1>4. ASSUME NEW p \in Processes, HeaderMade(p) PROVE Now
  <2>1. UNCHANGED <<vars, own, gen, steady>> /\ at[p] = "header"
    BY <1>4 DEF HeaderMade
  <2>2. at'[w] \in {at[w], "check"}
    BY <1>4 DEF HeaderMade, Goes, OwnTypeOK
  <2>3. Log(p) \in Logs /\ length[Log(p)] = 0
    BY <2>1, LogOfProcess DEF HeadersSound
  <2>4. ASSUME NEW l \in Logs, length[l] > 0 PROVE Outdated(l)' <=> Outdated(l)
    <3>1. header'[l] = header[l]
      BY <1>4, <2>3, <2>4 DEF HeaderMade, OwnTypeOK
    <3> QED
      BY <2>1, <3>1, OutdatedSame
  <2>5. CASE at'[w] \in {"log", "take"}
    <3>1. own # 0
      BY <2>2, <2>5 DEF Awake
    <3>2. Generations[own] \in Logs /\ length[Generations[own]] > 0
      BY <3>1 DEF HeadersSound, OwnTypeOK
    <3> QED
      BY <1>1, <2>1, <2>2, <2>4, <2>5, <3>2
  <2>6. CASE at'[w] = "append"
    <3>1. Log(w) \in Logs /\ length[Log(w)] > 0
      BY <2>2, <2>6, LogOfProcess DEF HeadersSound
    <3> QED
      BY <1>1, <2>1, <2>2, <2>4, <2>6, <3>1 DEF Log
  <2> QED
    BY <2>5, <2>6
<1>5. ASSUME NEW p \in Processes, Check(p) PROVE Now
  <2>1. UNCHANGED <<vars, header>>
    BY <1>5 DEF Check, logVars
  <2>2. CASE Outdated(Log(p))
    <3>1. UNCHANGED <<own, steady>> /\ at' = [at EXCEPT ![p] = "core"]
      BY <1>5, <2>2 DEF Check, Goes
    <3>2. w # p => gen'[w] = gen[w]
      BY <1>5, <2>2 DEF Check, OwnTypeOK
    <3> QED
      BY <1>1, <1>2, <2>1, <3>1, <3>2 DEF Log, OwnTypeOK
  <2>3. CASE ~ Outdated(Log(p))
    <3>1. own' = gen[p] /\ at' = [at EXCEPT ![p] = Follow(p)]
      BY <1>5, <2>3 DEF Check, Goes
    <3>2. ~ Outdated(Generations[own])'
      BY <1>2, <2>1, <2>3, <3>1 DEF Log
    <3>3. w # p => gen'[w] = gen[w] /\ (steady'[w] => steady[w])
      BY <1>5, <2>3 DEF Check, OwnTypeOK
    <3>4. Follow(p) # "append"
      BY DEF Follow
    <3> QED
      BY <1>1, <1>2, <2>1, <3>1, <3>2, <3>3, <3>4 DEF Log, OwnTypeOK
  <2> QED
    BY <2>2, <2>3
<1>6. ASSUME NEW p \in Processes, OwnUncut(p) PROVE Now
  <2>1. UNCHANGED <<vars, header, own>>
    BY <1>6 DEF OwnUncut, logVars
  <2>2. CASE w # p
    <3>1. at'[w] = at[w] /\ gen'[w] = gen[w] /\ steady[w]
      BY <1>6, <2>2 DEF OwnUncut, Goes, OwnTypeOK
    <3> QED
      BY <1>1, <1>2, <2>1, <3>1 DEF Log
  <2>3. CASE w = p
    <3>1. canWrite(Top, Me)
      BY <2>1, WriteSame
    <3>2. at'[w] = "core" \/ (at'[w] = Follow(w) /\ ~ Outdated(Generations[own]))
      BY <1>6, <2>3, <3>1 DEF OwnUncut, Goes, OwnTypeOK
    <3>3. Follow(w) # "append"
      BY DEF Follow
    <3> QED
      BY <1>2, <2>1, <3>2, <3>3
  <2> QED
    BY <2>2, <2>3
<1>7. CASE Start \/ OnDecisions \/ \E v \in Writers : MayPost(v) \/ AcceptLog(v)
  <2>1. UNCHANGED <<vars, header, own, steady>>
    BY <1>7 DEF Start, OnDecisions, MayPost, AcceptLog, logVars
  <2>2. \/ at'[w] = at[w]
        \/ at'[w] = "uncut"
        \/ at[w] = "log" /\ at'[w] = "take"
    BY <1>7 DEF Start, OnDecisions, MayPost, AcceptLog, Goes, OwnTypeOK
  <2>3. gen'[w] = gen[w]
    BY <1>7 DEF Start, OnDecisions, MayPost, AcceptLog, OwnTypeOK
  <2> QED
    BY <1>1, <1>2, <2>1, <2>2, <2>3 DEF Log
<1>8. ASSUME NEW v \in Writers, TakeLog(v) PROVE Now
  <2>1. UNCHANGED <<vars, header, own, steady>>
    BY <1>8 DEF TakeLog, logVars
  <2>2. \/ at'[w] = at[w] /\ gen'[w] = gen[w]
        \/ at[w] = "take" /\ at'[w] = "append" /\ gen'[w] = own
    BY <1>8 DEF TakeLog, Goes, OwnTypeOK
  <2> QED
    BY <1>1, <1>2, <2>1, <2>2 DEF Log
<1>9. ASSUME NEW v \in Writers, AppendRecord(v) PROVE Now
  <2>1. UNCHANGED <<vars, header, own>>
    BY <1>9 DEF AppendRecord
  <2>2. \/ at'[w] = at[w] /\ gen'[w] = gen[w] /\ steady'[w] = steady[w]
        \/ at'[w] = "idle"
    BY <1>9 DEF AppendRecord, Goes, OwnTypeOK
  <2> QED
    BY <1>1, <1>2, <2>1, <2>2 DEF Log
<1>10. CASE UNCHANGED allVars
  <2>1. UNCHANGED <<vars, header, own, at, gen, steady>>
    BY <1>10 DEF allVars, ownVars, logVars
  <2> QED
    BY <1>1, <1>2, <2>1 DEF Log
<1>11. CASE Decide \/ Crash
  BY <1>11 DEF Decide, Crash
<1> QED
  BY <1>3, <1>4, <1>5, <1>6, <1>7, <1>8, <1>9, <1>10, <1>11 DEF OwnNext, Opens, Writes

\* A log that is not outdated counts without a limit for who may write.
LEMMA CurrentCounts ==
    ASSUME ContentTypeOK, chainOf(Top) = <<Top>>, NEW l \in Logs,
           canWrite(Top, Me), ~ Outdated(l)
    PROVE  /\ logLimit(l) = Inf
           /\ \A p \in Permissions :
                can(stateRole(Top, Me), p, roles) => editLimit(Top, Me, p, l) = Inf
<1>1. stateCut(Top, Me).logs[l] = Inf /\ ~ unadmitted(l)
  BY DEF Outdated, isCut
<1>2. logLimit(l) = Inf
  BY <1>1 DEF logLimit, limitOf
<1>3. ASSUME NEW p \in Permissions, can(stateRole(Top, Me), p, roles)
      PROVE  editLimit(Top, Me, p, l) = Inf
  <2>1. editcut[Top][Me][p][l] = Inf
    BY <1>3 DEF Outdated, isEditCut
  <2>2. DOMAIN <<Top>> = {1} /\ <<Top>>[1] = Top
    OBVIOUS
  <2>3. {editcut[chainOf(Top)[i]][Me][p][l] : i \in DOMAIN chainOf(Top)} = {Inf}
    BY <2>1, <2>2
  <2>4. Inf \in Nat
    BY BoundAssumption DEF Inf
  <2>5. (CHOOSE n \in {Inf} : \A m \in {Inf} : n <= m) = Inf
    BY <2>4
  <2> QED
    BY <1>3, <2>3, <2>5 DEF editLimit, stateEditCut
<1> QED
  BY <1>2, <1>3

\* No write lands in a log a cut has closed, or that its readers do not count
\* for want of the code its author was let back in with, unless something was
\* decided since the write last looked: #ownUncut and #log, for any number of
\* writes, decisions and restarts.
THEOREM WritesCount == OwnSpec => []NothingInCut
<1> DEFINE Inv == OwnInv /\ Current /\ PublicInv
<1>1. OwnInit => Inv
  <2> SUFFICES ASSUME OwnInit PROVE Inv
    OBVIOUS
  <2>1. Current
    BY DEF OwnInit, Current
  <2>2. PublicInv
    BY PublicInit DEF OwnInit
  <2> QED
    BY <2>1, <2>2, OwnInvInit
<1>2. Inv /\ [OwnNext]_allVars => Inv'
  <2> SUFFICES ASSUME Inv, [OwnNext]_allVars PROVE Inv'
    OBVIOUS
  <2> QED
    BY OwnInvStep, CurrentStep, DecidedStep, PublicStep
<1>3. Inv => NothingInCut
  <2> SUFFICES ASSUME Inv, NEW w \in Writers, at[w] = "append", steady[w], canWrite(Top, Me)
               PROVE  /\ logLimit(Log(w)) = Inf
                      /\ \A p \in Permissions :
                            can(stateRole(Top, Me), p, roles) => editLimit(Top, Me, p, Log(w)) = Inf
    BY DEF NothingInCut
  <2>1. Log(w) \in Logs
    BY OwnFacts, LogOfProcess DEF OwnInv
  <2>2. ~ Outdated(Log(w))
    BY DEF Current
  <2>3. ContentTypeOK /\ chainOf(Top) = <<Top>>
    BY DEF PublicInv, OwnerInv, ChainShape
  <2> QED
    BY <2>1, <2>2, <2>3, CurrentCounts
<1> QED
  BY <1>1, <1>2, <1>3, PTL DEF OwnSpec

-----------------------------------------------------------------------------
(* Logs prepared while out.                                                *)

\* A log made by who was cut and is out carries no code that counts: none is
\* given to who is out, and whoever is let back in gets a new one.
Prepared ==
    /\ \A l \in Logs :
        /\ header[l].cut => cut[Top][Me].on
        /\ header[l].out /\ header[l].cut =>
               admit[Top][Me] = None \/ header[l].code # admit[Top][Me]
        /\ header[l].code # None => header[l].code <= codes
    /\ \A p \in Processes : code[p] # None => code[p] <= codes

\* Of the top space itself, with nothing above it.
LEMMA TopReads ==
    ASSUME StateInv
    PROVE  /\ admission(Top, Me) = admit[Top][Me]
           /\ stateMember(Top, Me).role = member[Top][Me].role
           /\ stateBanned(Top, Me) <=> banned[Top][Me] # NoBan
           /\ stateCut(Top, Me).on = cut[Top][Me].on
           /\ \A l \in Logs : stateCut(Top, Me).logs[l] = cut[Top][Me].logs[l]
<1>1. TypeOK /\ KeyInv /\ Me \in Ids /\ Top \in Scopes
  BY StateFacts, OwnAssumption
<1>2. chainOf(Top) = <<Top>> /\ DOMAIN <<Top>> = {1} /\ <<Top>>[1] = Top /\ IsScope(Top)
  BY <1>1, KeyFacts DEF ChainShape, IsScope
<1>3. admission(Top, Me) = admit[Top][Me]
  <2>1. (CHOOSE i \in {1} : \A j \in {1} : i <= j) = 1
    OBVIOUS
  <2> DEFINE coded == {i \in DOMAIN <<Top>> : admit[<<Top>>[i]][Me] # None}
  <2>2. coded = {} \/ coded = {1}
    BY <1>2
  <2>3. coded = {} <=> admit[Top][Me] = None
    BY <1>2
  <2>4. admission(Top, Me) = IF coded = {} THEN None
                             ELSE admit[<<Top>>[CHOOSE i \in coded : \A j \in coded : i <= j]][Me]
    BY <1>2 DEF admission
  <2> HIDE DEF coded
  <2> QED
    BY <1>2, <2>1, <2>2, <2>3, <2>4
<1>4. stateMember(Top, Me).role = member[Top][Me].role
  <2>1. stateMember(Top, Me).role = roleOf(Top, Me)
    BY <1>1, <1>2, ReadMember
  <2> QED
    BY <1>1, <2>1, KeyFacts
<1>5. stateBanned(Top, Me) <=> banned[Top][Me] # NoBan
  BY <1>2 DEF stateBanned, bannedIn
<1>6. stateCut(Top, Me).on = cut[Top][Me].on
  <2>1. cut[Top][Me].on \in BOOLEAN
    BY <1>1 DEF TypeOK, Cut
  <2>2. {cut[chainOf(Top)[i]][Me] : i \in DOMAIN chainOf(Top)} = {cut[Top][Me]}
    BY <1>2
  <2> QED
    BY <2>1, <2>2 DEF stateCut
<1>7. \A l \in Logs : stateCut(Top, Me).logs[l] = cut[Top][Me].logs[l]
  BY <1>1, <1>2, LowestCut
<1> QED
  BY <1>3, <1>4, <1>5, <1>6, <1>7

LEMMA PreparedStep ==
    OwnInv /\ StateInv /\ PostersOnly /\ AdmitInv /\ Prepared /\ [OwnNext]_allVars => Prepared'
<1> SUFFICES ASSUME OwnInv, StateInv, PostersOnly, AdmitInv, Prepared, [OwnNext]_allVars
             PROVE  Prepared'
  OBVIOUS
<1>1. /\ OwnTypeOK /\ Me \in Ids /\ None \notin Nat
      /\ header \in [Logs -> Header] /\ code \in [Processes -> Nat \cup {None}]
  BY OwnAssumption, PersonAssumption DEF OwnInv, OwnTypeOK
<1>2. \A l \in Logs : header[l].code \in Nat \cup {None}
  BY <1>1 DEF Header
<1>3. CASE Decide
  <2>1. DecisionNext /\ UNCHANGED <<header, code>>
    BY <1>3 DEF Decide, logVars
  <2>2. TopRows
    BY <2>1, RowsStep
  <2>3. codes \in Nat /\ codes' \in Nat /\ codes <= codes'
    BY <2>2, AdmitFacts DEF TopRows
  <2>4. /\ cut[Top][Me].on => cut'[Top][Me].on
        /\ admit'[Top][Me] \in {None, admit[Top][Me], codes + 1}
    BY <1>1, <2>2 DEF TopRows, RowKept, RowOut, RowOwner, RowIn
  <2>5. \A l \in Logs : header[l].code # codes + 1
    BY <1>1, <1>2, <2>3 DEF Prepared
  <2>6. \A n \in Nat \cup {None} : n # None /\ n <= codes => n <= codes'
    BY <2>3
  <2>7. ASSUME NEW l \in Logs
        PROVE  /\ header[l].cut => cut'[Top][Me].on
               /\ header[l].out /\ header[l].cut =>
                      admit'[Top][Me] = None \/ header[l].code # admit'[Top][Me]
               /\ header[l].code # None => header[l].code <= codes'
    BY <1>2, <2>4, <2>5, <2>6 DEF Prepared
  <2>8. \A p \in Processes : code[p] # None => code[p] <= codes'
    BY <1>1, <2>6 DEF Prepared
  <2> QED
    BY <2>1, <2>7, <2>8 DEF Prepared
<1>4. ASSUME UNCHANGED <<vars, header>>,
             \A p \in Processes : code'[p] # None => code'[p] = code[p] \/ code'[p] = admit[Top][Me]
      PROVE  Prepared'
  <2>1. UNCHANGED <<cut, admit, codes>>
    BY <1>4 DEF vars, memberVars, cutVars
  <2>2. admit[Top][Me] # None => admit[Top][Me] <= codes
    BY <1>1 DEF AdmitInv
  <2> QED
    BY <1>4, <2>1, <2>2 DEF Prepared
<1>5. ASSUME NEW p \in Processes, CoreReady(p) PROVE Prepared'
  <2>1. UNCHANGED <<vars, header>> /\ code' \in {code, [code EXCEPT ![p] = admission(Top, Me)]}
    BY <1>5 DEF CoreReady, logVars
  <2>2. \A q \in Processes : code'[q] = code[q] \/ code'[q] = admit[Top][Me]
    BY <1>1, <2>1, TopReads
  <2> QED
    BY <1>4, <2>1, <2>2
<1>6. ASSUME NEW p \in Processes, HeaderMade(p) PROVE Prepared'
  <2>1. UNCHANGED <<cut, admit, codes>>
    BY <1>6 DEF HeaderMade, vars, memberVars, cutVars
  <2> DEFINE new == [made |-> TRUE, code |-> code[p], out |-> stateBanned(Top, Me),
                     cut |-> stateCut(Top, Me).on]
  <2>2. \A l \in Logs : header'[l] = header[l] \/ header'[l] = new
    BY <1>1, <1>6 DEF HeaderMade
  <2>3. new.cut => cut[Top][Me].on
    BY TopReads
  <2>4. new.out => admit[Top][Me] = None
    BY <1>1, TopReads, AdmitFacts DEF AdmitInv
  <2>5. new.code # None => new.code <= codes
    BY DEF Prepared
  <2>6. \A q \in Processes : code'[q] # None => code'[q] = code[q]
    BY <1>1, <1>6 DEF HeaderMade
  <2> HIDE DEF new
  <2> QED
    BY <2>1, <2>2, <2>3, <2>4, <2>5, <2>6 DEF Prepared
<1>7. CASE Start \/ OnDecisions \/ Crash \/ UNCHANGED allVars
  <2>1. UNCHANGED <<vars, header>>
    BY <1>7 DEF Start, OnDecisions, Crash, allVars, ownVars, logVars
  <2>2. \A p \in Processes : code'[p] # None => code'[p] = code[p]
    BY <1>7 DEF Start, OnDecisions, Crash, allVars, ownVars
  <2> QED
    BY <1>4, <2>1, <2>2
<1>8. ASSUME NEW p \in Processes, Check(p) \/ OwnUncut(p) PROVE Prepared'
  BY <1>4, <1>8 DEF Check, OwnUncut, logVars
<1>9. ASSUME NEW w \in Writers, MayPost(w) \/ Writes(w) PROVE Prepared'
  BY <1>4, <1>9 DEF MayPost, Writes, AcceptLog, TakeLog, AppendRecord, logVars
<1> QED
  BY <1>3, <1>5, <1>6, <1>7, <1>8, <1>9 DEF OwnNext, Opens

\* Where every role an app defines may post: a log that someone made while they
\* were cut and out of the space, and that no cut names, counts for nothing
\* once they are back, however the opening of that log, the decisions and the
\* restarts came in between.
THEOREM PreparedSafe == PostersOnly => (OwnSpec => []PreparedLogsStayOut)
<1> SUFFICES ASSUME PostersOnly PROVE OwnSpec => []PreparedLogsStayOut
  OBVIOUS
<1> DEFINE Inv == OwnInv /\ StateInv /\ AdmitInv /\ Prepared
<1>1. OwnInit => Inv
  <2> SUFFICES ASSUME OwnInit PROVE Inv
    OBVIOUS
  <2>1. StateInv /\ AdmitInv
    BY StateInit, AdmitInit DEF OwnInit
  <2>2. Prepared
    BY DEF OwnInit, Prepared, NoHeader
  <2> QED
    BY <2>1, <2>2, OwnInvInit
<1>2. Inv /\ [OwnNext]_allVars => Inv'
  BY OwnInvStep, StateStep, AdmitStep, PreparedStep, DecidedStep
<1>3. Inv => PreparedLogsStayOut
  <2> SUFFICES ASSUME Inv, NEW l \in Logs, header[l].out, header[l].cut,
                      cut[Top][Me].logs[l] = Inf,
                      stateRole(Top, Me) \in {"admin", "moderator", "member", "guest"},
                      stateMember(Top, Me) # NoEntry
               PROVE  logLimit(l) = 0
    BY DEF PreparedLogsStayOut
  <2>1. Me \in Ids /\ MaxLen \in Nat \ {0} /\ None \notin Builtin
    BY OwnFacts, OwnAssumption, NoneAssumption DEF RoleNames
  <2>2. member[Top][Me].role \in {"admin", "moderator", "member", "guest"}
    BY TopReads DEF stateRole
  <2>3. cut[Top][Me].on /\ admit[Top][Me] # None
    BY <2>1, <2>2 DEF AdmitInv, Prepared, Builtin
  <2>4. unadmitted(l)
    BY <2>3, TopReads DEF unadmitted, mustAdmit, Prepared
  <2>5. limitOf(Top, Me, l) \in {0, Inf} /\ Inf > 1
    BY <2>1, TopReads DEF limitOf, Inf
  <2> QED
    BY <2>4, <2>5 DEF logLimit
<1> QED
  BY <1>1, <1>2, <1>3, PTL DEF OwnSpec
=============================================================================
