----------------------------- MODULE Residency -----------------------------
(* internal/policy/data_residency.go: EnforceTransfer weighs a transfer with  *)
(* d.mu locked for reading, looks at the rules again without the lock, and    *)
(* pushes what it decided with d.mu locked for writing.  EvaluateRisk takes   *)
(* the read lock a second time in recentEventsCount, and a writer that waits  *)
(* in between stops both: sync.RWMutex lets no new reader pass a writer.      *)
EXTENDS Integers, Sequences, FiniteSets, SequencesExt

CONSTANTS Transfer,      \* the concurrent calls of EnforceTransfer
          RuleWriter,    \* the concurrent calls that change the rules
          Rule, Region, Country,
          RuleRegion,    \* the region of a rule
          Strict,        \* the rules that let nothing out
          Named,         \* the countries a rule names ({} for all of them)
          BaseRisk,      \* 100 * (0.6 sensitivity + 0.3 country risk) by country
          HistorySize    \* maxHistorySize

ASSUME ResidencyAssumption ==
  /\ RuleRegion \in [Rule -> Region] /\ Strict \subseteq Rule
  /\ Named \in [Rule -> SUBSET Country] /\ BaseRisk \in [Country -> 0..90]
  /\ HistorySize \in Nat \ {0}
  /\ Transfer \cap RuleWriter = {} /\ "none" \notin Rule

VARIABLES drRules,     \* d.rules
          drHistory,   \* d.history: what was decided, and from which region
          drReaders,   \* the calls that hold d.mu for reading, how often
          drWaiting,   \* the calls that wait in d.mu.Lock
          drAt,        \* where a call is
          drMove,      \* from, to and country of a transfer
          drScore,     \* 100 * score
          drAnswer,    \* the action of a transfer
          drAlone,     \* the rules have not changed since the call began
          drPlan       \* what a writer is about to do

drLock == <<drReaders, drWaiting>>
drCall == <<drMove, drScore, drAnswer>>
drVars == <<drRules, drHistory, drLock, drAt, drCall, drAlone, drPlan>>

NoMove == [from |-> "none", to |-> "none", country |-> "none"]
NoRule == "none"
DrCall == Transfer \cup RuleWriter

ResidencyInit ==
  /\ drRules = {} /\ drHistory = <<>>
  /\ drReaders = [c \in Transfer |-> 0] /\ drWaiting = {}
  /\ drAt = [c \in DrCall |-> "idle"]
  /\ drMove = [c \in Transfer |-> NoMove] /\ drScore = [c \in Transfer |-> 0]
  /\ drAnswer = [c \in Transfer |-> "none"]
  /\ drAlone = [c \in Transfer |-> TRUE]
  /\ drPlan = [w \in RuleWriter |-> NoRule]

DrGoto(c, place) == drAt' = [drAt EXCEPT ![c] = place]

(* sync.RWMutex *)
MayRead == drWaiting = {}
MayWrite == \A c \in Transfer : drReaders[c] = 0

-----------------------------------------------------------------------------
(* findRuleForDataInRegion: any rule of the region, in the order of the map   *)
RulesFor(from) == {r \in drRules : RuleRegion[r] = from}
RuleFound(from) == IF RulesFor(from) = {} THEN {NoRule} ELSE RulesFor(from)

(* recentEventsCount *)
Events(from) ==
  Cardinality({k \in DOMAIN drHistory : drHistory[k].from = from
                                        /\ drHistory[k].action \in {"blocked", "warn"}})
Capped(n, limit) == IF n > limit THEN limit ELSE n

Outside(r, country) == Named[r] # {} /\ country \notin Named[r]

(* EvaluateRisk, in hundredths *)
Penalty(r, m) ==
  IF r = NoRule \/ r \notin Strict THEN 0
  ELSE (IF m.from # m.to THEN 60 ELSE 0) + (IF Outside(r, m.country) THEN 25 ELSE 0)
ScoreOf(r, m) ==
  Capped(BaseRisk[m.country] + Capped(Events(m.from), 10)
           + (IF m.from # m.to THEN 25 ELSE 0) + Capped(Penalty(r, m), 100), 100)

ActionOf(score) == IF score >= 75 THEN "blocked" ELSE IF score >= 50 THEN "warn" ELSE "allowed"

(* a strict rule is looked at before the score *)
TransferDecision(r, m, score) ==
  IF r # NoRule /\ r \in Strict /\ m.from # m.to THEN "blocked" ELSE ActionOf(score)

-----------------------------------------------------------------------------
EnforceTransfer(c) ==
  /\ drAt[c] = "idle" /\ MayRead
  /\ \E from, to \in Region, country \in Country :
       drMove' = [drMove EXCEPT ![c] = [from |-> from, to |-> to, country |-> country]]
  /\ drReaders' = [drReaders EXCEPT ![c] = 1]
  /\ drAlone' = [drAlone EXCEPT ![c] = TRUE]
  /\ DrGoto(c, "weighs")
  /\ UNCHANGED <<drRules, drHistory, drWaiting, drScore, drAnswer, drPlan>>

(* recentEventsCount locks again; the rule of the sensitivity and that of the *)
(* penalty come from two searches of the same map                             *)
EvaluateRisk(c) ==
  /\ drAt[c] = "weighs" /\ MayRead
  /\ \E r \in RuleFound(drMove[c].from) :
       drScore' = [drScore EXCEPT ![c] = ScoreOf(r, drMove[c])]
  /\ drReaders' = [drReaders EXCEPT ![c] = 0]
  /\ DrGoto(c, "decides")
  /\ UNCHANGED <<drRules, drHistory, drWaiting, drMove, drAnswer, drAlone, drPlan>>

(* the rules once more, with no lock *)
DecideTransfer(c) ==
  /\ drAt[c] = "decides"
  /\ \E r \in RuleFound(drMove[c].from) :
       drAnswer' = [drAnswer EXCEPT ![c] = TransferDecision(r, drMove[c], drScore[c])]
  /\ drScore' = [drScore EXCEPT ![c] = 0]
  /\ drWaiting' = drWaiting \cup {c}
  /\ DrGoto(c, "pushes")
  /\ UNCHANGED <<drRules, drHistory, drReaders, drMove, drAlone, drPlan>>

(* pushLog drops the oldest entry of a full history *)
Logged(c) == [from |-> drMove[c].from, action |-> drAnswer[c]]
Pushed(entry) ==
  Append(IF Len(drHistory) >= HistorySize THEN Tail(drHistory) ELSE drHistory, entry)

PushLog(c) ==
  /\ drAt[c] = "pushes" /\ MayWrite
  /\ drHistory' = Pushed(Logged(c))
  /\ drWaiting' = drWaiting \ {c}
  /\ DrGoto(c, "answers")
  /\ UNCHANGED <<drRules, drReaders, drCall, drAlone, drPlan>>

TransferReturns(c) ==
  /\ drAt[c] = "answers" /\ DrGoto(c, "idle")
  /\ drMove' = [drMove EXCEPT ![c] = NoMove]
  /\ drAnswer' = [drAnswer EXCEPT ![c] = "none"]
  /\ drAlone' = [drAlone EXCEPT ![c] = TRUE]
  /\ UNCHANGED <<drRules, drHistory, drLock, drScore, drPlan>>

-----------------------------------------------------------------------------
(* AddOrUpdateRule, RemoveRule and LoadRulesJSON wait for the lock and change *)
(* the rules; ClearHistory empties the history                                *)
RuleCall(w) ==
  /\ drAt[w] = "idle" /\ DrGoto(w, "waits")
  /\ drWaiting' = drWaiting \cup {w}
  /\ \E r \in Rule : drPlan' = [drPlan EXCEPT ![w] = r]
  /\ UNCHANGED <<drRules, drHistory, drReaders, drCall, drAlone>>

RuleChange(w) ==
  /\ drAt[w] = "waits" /\ MayWrite
  /\ \/ drRules' = drRules \cup {drPlan[w]} /\ UNCHANGED drHistory
     \/ drRules' = drRules \ {drPlan[w]} /\ UNCHANGED drHistory
     \/ drHistory' = <<>> /\ UNCHANGED drRules
  /\ drAlone' = [c \in Transfer |-> drAlone[c] /\ drRules' = drRules]
  /\ drWaiting' = drWaiting \ {w} /\ DrGoto(w, "idle")
  /\ drPlan' = [drPlan EXCEPT ![w] = NoRule]
  /\ UNCHANGED <<drReaders, drCall>>

ResidencyNext ==
  \/ \E c \in Transfer : \/ EnforceTransfer(c) \/ EvaluateRisk(c) \/ DecideTransfer(c)
                         \/ PushLog(c) \/ TransferReturns(c)
  \/ \E w \in RuleWriter : RuleCall(w) \/ RuleChange(w)

ResidencySpec == ResidencyInit /\ [][ResidencyNext]_drVars

-----------------------------------------------------------------------------
(* Types; nobody writes beside a reader, and the history stays bounded. *)
ResidencyTypeOK ==
  /\ drRules \subseteq Rule /\ Len(drHistory) <= HistorySize
  /\ drReaders \in [Transfer -> 0..1] /\ drWaiting \subseteq DrCall
  /\ \A c \in Transfer : drAt[c] \in {"idle", "weighs", "decides", "pushes", "answers"}
  /\ \A w \in RuleWriter : drAt[w] \in {"idle", "waits"}
  /\ drScore \in [Transfer -> 0..100]
  /\ drAnswer \in [Transfer -> {"none", "allowed", "warn", "blocked"}]

(* Data a strict rule keeps in its region does not leave it: a transfer out   *)
(* of the region is blocked when the rules stayed as they were during the     *)
(* call and every rule of the region is strict, whatever the score and the    *)
(* history are.  (With another rule beside the strict one, the order of the   *)
(* map decides.)                                                              *)
StrictStays ==
  \A c \in Transfer :
    drAnswer[c] # "none" /\ drAlone[c] /\ drMove[c].from # drMove[c].to
      /\ RulesFor(drMove[c].from) # {} /\ RulesFor(drMove[c].from) \subseteq Strict
      => drAnswer[c] = "blocked"

(* A decision is in the history when the call answers, and stays there until  *)
(* HistorySize younger ones or a clearing push it out: the last entry is that *)
(* of the last push.                                                          *)
LastPushIsLast ==
  \A c \in Transfer : drAt[c] = "pushes" /\ drAt'[c] = "answers" =>
    Last(drHistory') = [from |-> drMove[c].from, action |-> drAnswer[c]]
=============================================================================
