-------------------------- MODULE IssueProtocolProofs --------------------------
(***************************************************************************)
(* Proofs about IssueProtocol, for any agents, staff, questions and bounds *)
(* on review cycles.                                                       *)
(***************************************************************************)
EXTENDS IssueProtocol, TLAPS

\* The types of the messages that a step may be of.
Types == DOMAIN Rules

\* Every rule leads from states to a state, or to the one it is applied in.
LEMMA RulesWithinStates ==
    \A type \in Types : /\ Rules[type].from \subseteq States \cup {NoState}
                        /\ Rules[type].to \in States \cup {Same}
BY DEF Types, Rules, Rule, States, NoState, Reviews, Same

\* Only ASSIGN_TASK is for an issue that has no state yet.
LEMMA OnlyAssignsFirst ==
    \A type \in Types \ {"ASSIGN_TASK"} : Rules[type].from \subseteq States
BY DEF Types, Rules, Rule, States, Reviews

\* What a simple message needs, and where it leads.
LEMMA SimpleRules ==
    /\ Simple \subseteq Types
    /\ Rules["ACK_ASSIGNMENT"].from = {"assigned"} /\ Rules["ACK_ASSIGNMENT"].to = "accepted"
    /\ Rules["PROPOSE_PLAN"].from = {"accepted", "planning"}
    /\ Rules["PROPOSE_PLAN"].to = "planning"
    /\ Rules["REPORT_PROGRESS"].to = Same
    /\ Rules["ESCALATE_BLOCKER"].from = {"assigned", "planning", "implementing", "under_review"}
    /\ Rules["ESCALATE_BLOCKER"].to = "blocked"
    /\ Rules["REQUEST_HUMAN_DECISION"].from = Reviews \cup {"blocked"}
    /\ Rules["REQUEST_HUMAN_DECISION"].to = "awaiting_human_decision"
    /\ Rules["CLOSE_TASK"].from = {"approved"} /\ Rules["CLOSE_TASK"].to = "done"
    /\ Rules["CANCEL_TASK"].to = "cancelled"
    /\ Rules["NOTE"].to = Same
BY DEF Simple, Types, Rules, Rule, Same

\* What the other messages need.
LEMMA OtherRules ==
    /\ Rules["ASSIGN_TASK"].from = {NoState, "backlog"}
    /\ Rules["REASSIGN_TASK"].from =
          {"assigned", "accepted", "planning", "implementing", "blocked", "changes_requested"}
    /\ Rules["START_IMPLEMENTATION"].from = {"accepted", "planning", "changes_requested"}
    /\ Rules["ACK_CHANGE_REQUEST"].from = {"changes_requested"}
    /\ Rules["SUBMIT_FOR_REVIEW"].from = {"implementing"}
    /\ Rules["START_REVIEW"].from = {"submitted_for_review", "qa_pending"}
    /\ Rules["REQUEST_CHANGES"].from = Reviews \cup {"awaiting_human_decision"}
    /\ Rules["APPROVE_IMPLEMENTATION"].from = Reviews \cup {"awaiting_human_decision"}
BY DEF Rules, Rule

\* A message that may be sent is sent in a state of its rule.
LEMMA SentByRule ==
    \A type \in Types : \A s \in MaySend(type) :
        workflow \in Rules[type].from /\ s \in Senders
BY DEF MaySend

-----------------------------------------------------------------------------
(* Types, the open cycle, and who watches.                                 *)

\* In a project with a lead, an issue with a state has a tech lead.
Led == Lead # NoAgent /\ workflow # NoState => owner["tech_lead"] # NoAgent

\* A dispatch found dependencies of an issue that has them, and a state.
FoundWithState == dependencyBlock # NoPhase => HasDependencies /\ workflow # NoState

\* The inductive invariant.
ProtocolInvariant == ProtocolTypeOK /\ OpenCycleIsCurrent /\ Led /\ FoundWithState

\* A message stores a state and a staff that keeps a tech lead.
Stores ==
    \E after \in States, staff \in [Owned -> Somebody] :
        /\ Post(after, staff)
        /\ Lead # NoAgent => staff["tech_lead"] # NoAgent

\* What becomes of the review cycles: nothing, but for a submission and for a review
\* that begins or ends.
Submitted == submission' = "new" /\ UNCHANGED <<currentCycle, cycles>>
Opened(n) ==
    /\ ~ReviewOpen
    /\ cycles' = [cycles EXCEPT ![n] = "open"] /\ currentCycle' = n /\ submission' = "reviewed"
Closed(n) ==
    /\ IsOpen(n)
    /\ cycles' = [cycles EXCEPT ![n] = "closed"] /\ UNCHANGED <<currentCycle, submission>>
ReviewEffect ==
    \/ UNCHANGED reviewVars
    \/ Submitted
    \/ \E n \in Cycles : Opened(n) \/ Closed(n)

\* Questions are asked, answered and withdrawn, never invented.
AskedOnly == questions' \subseteq Questions

\* Acknowledging a question leaves questions.
LEMMA AcknowledgesKeeps ==
    ASSUME questions \subseteq Questions, Acknowledges
    PROVE  AskedOnly
BY DEF Acknowledges, Unanswered, AskedOnly

\* The agents that staff an issue, from those that were known.
LEMMA OrTypes ==
    \A a \in Somebody, b \in Somebody : /\ Or(a, b) \in Somebody
                                        /\ b # NoAgent => Or(a, b) # NoAgent
                                        /\ a # NoAgent => Or(a, b) # NoAgent
BY DEF Or

\* Who assigns a task stores a staff.
LEMMA AssignStores ==
    ASSUME ProtocolInvariant, NEW target \in Makers, NEW role \in TargetRoles,
           NEW lead \in Somebody, NEW reviewer \in Checkers \cup {NoAgent},
           NEW qa \in Checkers \cup {NoAgent}, AssignTask(target, role, lead, reviewer, qa)
    PROVE  Stores /\ ReviewEffect /\ AskedOnly
<1> DEFINE staff == [tech_lead |-> lead, engineer |-> IF role = "engineer" THEN target ELSE NoAgent,
                     reviewer |-> reviewer, qa |-> qa]
<1>1. target \in Somebody /\ reviewer \in Somebody /\ qa \in Somebody
  BY StaffAssumption DEF Somebody
<1>2. staff \in [Owned -> Somebody]
  BY <1>1 DEF Owned, Somebody
<1>3. Lead # NoAgent => staff["tech_lead"] # NoAgent
  BY AgentsAssumption, StaffAssumption DEF AssignTask, TechLead, Or
<1>4. Post("assigned", staff)
  BY DEF AssignTask
<1>5. Stores
  BY <1>2, <1>3, <1>4 DEF Stores, States
<1> QED BY <1>5, AcknowledgesKeeps DEF AssignTask, ReviewEffect, ProtocolInvariant, ProtocolTypeOK

\* So does who reassigns one.
LEMMA ReassignStores ==
    ASSUME ProtocolInvariant, NEW byPm \in BOOLEAN, NEW target \in Makers,
           NEW role \in TargetRoles, NEW reviewer \in Checkers \cup {NoAgent},
           NEW qa \in Checkers \cup {NoAgent}, Reassign(byPm, target, role, reviewer, qa)
    PROVE  Stores /\ ReviewEffect /\ AskedOnly
<1> DEFINE engineer == owner["engineer"]
           retry == byPm /\ engineer # NoAgent /\ role = "tech_lead" /\ target = owner["tech_lead"]
           after == IF workflow = "implementing" /\ engineer = target THEN "implementing"
                    ELSE "assigned"
           staff == [tech_lead |-> IF role = "tech_lead" THEN target ELSE TechLead(owner["tech_lead"]),
                     engineer |-> IF role = "engineer" THEN target
                                  ELSE IF retry THEN engineer ELSE NoAgent,
                     reviewer |-> IF retry THEN owner["reviewer"] ELSE Or(reviewer, owner["reviewer"]),
                     qa |-> IF retry THEN owner["qa"] ELSE Or(qa, owner["qa"])]
<1>1. target \in Agents /\ target # NoAgent /\ reviewer \in Somebody /\ qa \in Somebody
  BY StaffAssumption, AgentsAssumption DEF Somebody
<1>2. \A known \in Owned : owner[known] \in Somebody
  BY DEF ProtocolInvariant, ProtocolTypeOK
<1>3. TechLead(owner["tech_lead"]) \in Somebody
      /\ (Lead # NoAgent => TechLead(owner["tech_lead"]) # NoAgent)
  BY <1>2, OrTypes, AgentsAssumption DEF TechLead, Owned
<1>4. Or(reviewer, owner["reviewer"]) \in Somebody /\ Or(qa, owner["qa"]) \in Somebody
  BY <1>1, <1>2, OrTypes DEF Owned
<1>5. staff["tech_lead"] \in Somebody /\ (Lead # NoAgent => staff["tech_lead"] # NoAgent)
  BY <1>1, <1>3 DEF Somebody
<1>6. staff \in [Owned -> Somebody]
  BY <1>1, <1>2, <1>3, <1>4 DEF Owned, Somebody
<1>7. Post(after, staff) /\ after \in States
  BY DEF Reassign, States
<1>8. Stores
  BY <1>5, <1>6, <1>7 DEF Stores
<1> QED BY <1>8, AcknowledgesKeeps DEF Reassign, ReviewEffect, ProtocolInvariant, ProtocolTypeOK

\* A message that does not staff the issue keeps its staff, if it has a state.
LEMMA KeepsStaff ==
    ASSUME ProtocolInvariant, workflow \in States, NEW after \in States, Post(after, owner)
    PROVE  Stores
<1>1. workflow # NoState
  BY DEF States, NoState
<1>2. Lead # NoAgent => owner["tech_lead"] # NoAgent
  BY <1>1 DEF ProtocolInvariant, Led
<1>3. owner \in [Owned -> Somebody]
  BY DEF ProtocolInvariant, ProtocolTypeOK
<1> QED BY <1>2, <1>3 DEF Stores

\* Every message but the first needs a state, and somebody in a role that may send it.
LEMMA SentInState ==
    ASSUME NEW type \in Types \ {"ASSIGN_TASK"}, MaySend(type) # {}
    PROVE  workflow \in Rules[type].from /\ workflow \in States
BY SentByRule, OnlyAssignsFirst

\* The messages of the work store the state of their rule.
LEMMA WorkingStores ==
    ASSUME ProtocolInvariant, Working
    PROVE  Stores /\ ReviewEffect /\ AskedOnly
<1> USE DEF ProtocolInvariant
<1>1. CASE \E type \in Simple : SimpleMessage(type)
  <2>1. PICK type \in Simple : SimpleMessage(type)
    BY <1>1
  <2>2. type \in Types \ {"ASSIGN_TASK"} /\ workflow \in States
    BY <2>1, SimpleRules, SentInState DEF SimpleMessage, Simple
  <2>3. After(type) \in States
    BY <2>2, RulesWithinStates DEF After
  <2>4. Stores
    BY <2>1, <2>2, <2>3, KeepsStaff DEF SimpleMessage
  <2> QED BY <2>1, <2>4, AcknowledgesKeeps DEF SimpleMessage, ReviewEffect, ProtocolTypeOK
<1>2. CASE \E type \in {"START_IMPLEMENTATION", "ACK_CHANGE_REQUEST"} :
              \E s \in MaySend(type) : Implement(s, type)
  <2>0. PICK type \in {"START_IMPLEMENTATION", "ACK_CHANGE_REQUEST"} :
           \E s \in MaySend(type) : Implement(s, type)
    BY <1>2
  <2>1. PICK s \in MaySend(type) : Implement(s, type)
    BY <2>0
  <2>2. type \in Types \ {"ASSIGN_TASK"}
    BY DEF Types, Rules
  <2>3. workflow \in States /\ s \in Senders
    BY <2>2, SentInState, SentByRule
  <2>4. s.agent \in Somebody
    BY <2>3 DEF Senders, Somebody
  <2> DEFINE staff == [owner EXCEPT !["engineer"] = Or(@, s.agent)]
  <2>5. staff \in [Owned -> Somebody]
    BY <2>4, OrTypes DEF ProtocolTypeOK, Owned
  <2>6. staff["tech_lead"] = owner["tech_lead"]
    BY DEF ProtocolTypeOK, Owned
  <2>7. Lead # NoAgent => staff["tech_lead"] # NoAgent
    BY <2>3, <2>6 DEF Led, States, NoState
  <2>8. Post("implementing", staff) /\ "implementing" \in States
    BY <2>1 DEF Implement, States
  <2>9. Stores
    BY <2>5, <2>7, <2>8 DEF Stores
  <2> QED BY <2>1, <2>9, AcknowledgesKeeps DEF Implement, ReviewEffect, ProtocolTypeOK
<1>3. CASE SubmitForReview
  <2>1. workflow \in States
    BY <1>3, SentInState DEF SubmitForReview, Types, Rules
  <2>2. Stores
    BY <1>3, <2>1, KeepsStaff DEF SubmitForReview, States
  <2> QED BY <1>3, <2>2, AcknowledgesKeeps
          DEF SubmitForReview, ReviewEffect, Submitted, ProtocolTypeOK
<1> QED BY <1>1, <1>2, <1>3 DEF Working

\* The messages of a review open the only cycle or close an open one.
LEMMA ReviewingStores ==
    ASSUME ProtocolInvariant, Reviewing
    PROVE  Stores /\ ReviewEffect /\ AskedOnly
<1> USE DEF ProtocolInvariant
<1>1. PICK n \in Cycles : StartReview(n) \/ RequestChanges(n)
                          \/ \E override \in BOOLEAN : Approve(n, override)
  BY DEF Reviewing
<1>2. CASE StartReview(n)
  <2>1. workflow \in States
    BY <1>2, SentInState DEF StartReview, MayStartReview, Types, Rules
  <2>2. Stores
    BY <1>2, <2>1, KeepsStaff DEF StartReview, States
  <2>3. Opened(n)
    BY <1>2 DEF StartReview, MayOpen, Opened
  <2> QED BY <1>2, <2>2, <2>3, AcknowledgesKeeps DEF StartReview, ReviewEffect, ProtocolTypeOK
<1>3. CASE RequestChanges(n)
  <2>1. workflow \in States
    BY <1>3, SentInState DEF RequestChanges, Types, Rules
  <2>2. Stores
    BY <1>3, <2>1, KeepsStaff DEF RequestChanges, States
  <2> QED BY <1>3, <2>2, AcknowledgesKeeps
          DEF RequestChanges, Closes, Closed, ReviewEffect, ProtocolTypeOK
<1>4. CASE \E override \in BOOLEAN : Approve(n, override)
  <2>1. PICK override \in BOOLEAN : Approve(n, override)
    BY <1>4
  <2>2. workflow \in States
    BY <2>1, SentInState DEF Approve, Types, Rules
  <2>3. PICK after \in {"approved", "qa_pending"} : Post(after, owner)
    BY <2>1 DEF Approve
  <2>4. Stores
    BY <2>2, <2>3, KeepsStaff DEF States
  <2> QED BY <2>1, <2>4, AcknowledgesKeeps DEF Approve, Closes, Closed, ReviewEffect, ProtocolTypeOK
<1> QED BY <1>1, <1>2, <1>3, <1>4

\* An answer resumes at a state.
LEMMA ResumesAtState ==
    ASSUME ProtocolTypeOK, workflow \in States, NEW q \in Questions
    PROVE  Resume(q) \in States
<1>1. q.resume \in States \cup {NoState}
  BY DEF Questions
<1> QED BY <1>1 DEF Resume, States, NoState

\* Questions and answers store the state they leave or lead to.
LEMMA AskingStores ==
    ASSUME ProtocolInvariant, Answering \/ \E q \in Questions : Ask(q)
    PROVE  Stores /\ ReviewEffect /\ AskedOnly
<1> USE DEF ProtocolInvariant
<1>1. CASE Answering
  <2>1. PICK q \in questions : Answer(q)
    BY <1>1 DEF Answering
  <2>2. workflow \in States
    BY <2>1, SentInState DEF Answer, Types, Rules
  <2>3. q \in Questions /\ Resume(q) \in States
    BY <2>1, <2>2, ResumesAtState DEF ProtocolTypeOK
  <2>4. Stores
    BY <2>1, <2>2, <2>3, KeepsStaff DEF Answer
  <2> QED BY <2>1, <2>4 DEF Answer, ReviewEffect, AskedOnly, ProtocolTypeOK
<1>2. CASE \E q \in Questions : Ask(q)
  <2>1. PICK q \in Questions : Ask(q)
    BY <1>2
  <2>2. workflow \in States
    BY <2>1, SentInState DEF Ask, Types, Rules
  <2>3. Stores
    BY <2>1, <2>2, KeepsStaff DEF Ask
  <2> QED BY <2>1, <2>3 DEF Ask, Unanswered, ReviewEffect, AskedOnly, ProtocolTypeOK
<1> QED BY <1>1, <1>2

\* So do reminders and escalations.
LEMMA TimeoutStores ==
    ASSUME ProtocolInvariant, TimeoutMessage
    PROVE  Stores /\ ReviewEffect /\ AskedOnly
<1>1. workflow \in States
  BY DEF TimeoutMessage, Watchers, Started
<1> QED BY <1>1, KeepsStaff
        DEF TimeoutMessage, ReviewEffect, AskedOnly, ProtocolInvariant, ProtocolTypeOK

\* So every step stores a state and a staff, or is none of a message.
LEMMA StepsStore ==
    ASSUME ProtocolInvariant, ProtocolNext
    PROVE  /\ Stores \/ Reopen \/ FindDependencies \/ BlockOnDependencies
           /\ ReviewEffect /\ AskedOnly
<1>1. CASE Staffing
  <2>1. PICK target \in Makers, role \in TargetRoles, reviewer \in Checkers \cup {NoAgent},
             qa \in Checkers \cup {NoAgent} :
           \/ \E lead \in Somebody : AssignTask(target, role, lead, reviewer, qa)
           \/ \E byPm \in BOOLEAN : Reassign(byPm, target, role, reviewer, qa)
    BY <1>1 DEF Staffing
  <2> QED BY <2>1, AssignStores, ReassignStores
<1>2. CASE Reopen \/ FindDependencies \/ BlockOnDependencies
  BY <1>2 DEF Reopen, FindDependencies, BlockOnDependencies, ReviewEffect, AskedOnly,
              ProtocolInvariant, ProtocolTypeOK
<1> QED BY <1>1, <1>2, WorkingStores, ReviewingStores, AskingStores, TimeoutStores
        DEF ProtocolNext

\* The coarse status of every state is a status, and every issue is blocked in a phase.
LEMMA StatusTypes ==
    ASSUME NEW s \in States
    PROVE  StatusOf(s) \in {"backlog", "todo", "in_progress", "in_review", "blocked", "done",
                            "cancelled"}
BY DEF StatusOf, States

\* The phase of the state before is a phase.
LEMMA PhaseTypes == PhaseBefore \in Phases /\ PhaseBefore # NoPhase
BY DEF PhaseBefore, Phases, NoPhase

\* What the store of a message leaves of the types, the tech lead and the dependencies.
LEMMA StoresTypes ==
    ASSUME ProtocolInvariant, Stores, ReviewEffect, AskedOnly
    PROVE  ProtocolTypeOK' /\ Led' /\ FoundWithState'
<1>1. PICK after \in States, staff \in [Owned -> Somebody] :
         Post(after, staff) /\ (Lead # NoAgent => staff["tech_lead"] # NoAgent)
  BY DEF Stores
<1>2. workflow' \in States /\ owner' \in [Owned -> Somebody] /\ workflow' # NoState
  BY <1>1 DEF Post, States, NoState
<1>3. blockedPhase' \in Phases \cup {NoPhase} /\ (workflow' = "blocked" <=> blockedPhase' # NoPhase)
  BY <1>1, PhaseTypes DEF Post
<1>4. issueStatus' \in {"backlog", "todo", "in_progress", "in_review", "blocked", "done", "cancelled"}
  BY <1>1, StatusTypes DEF Post
<1>5. staff["engineer"] \in Somebody /\ staff["tech_lead"] \in Somebody
  BY DEF Owned
<1>6. assignee' \in Somebody
  BY <1>1, <1>5, OrTypes DEF Post
<1>7. /\ currentCycle' \in {0} \cup Cycles
      /\ cycles' \in [Cycles -> {"none", "open", "closed"}]
      /\ submission' \in {"none", "new", "reviewed"}
  BY DEF ReviewEffect, Submitted, Opened, Closed, reviewVars, ProtocolInvariant, ProtocolTypeOK
<1>8. questions' \subseteq Questions /\ dependencyBlock' \in Phases \cup {NoPhase}
  BY <1>1 DEF AskedOnly, Post, ProtocolInvariant, ProtocolTypeOK
<1>9. ProtocolTypeOK'
  BY <1>2, <1>3, <1>4, <1>6, <1>7, <1>8 DEF ProtocolTypeOK
<1>10. Led' /\ FoundWithState'
  BY <1>1, <1>2 DEF Led, FoundWithState, Post, ProtocolInvariant
<1> QED BY <1>9, <1>10

\* The recovery and the dependencies keep them too.
LEMMA OthersKeepTypes ==
    ASSUME ProtocolInvariant, Reopen \/ FindDependencies \/ BlockOnDependencies
    PROVE  ProtocolTypeOK' /\ Led' /\ FoundWithState'
<1> USE DEF ProtocolInvariant, ProtocolTypeOK, Led, FoundWithState, NoState
<1>1. CASE Reopen
  <2>1. owner["engineer"] \in Somebody /\ owner["tech_lead"] \in Somebody
    BY DEF Owned
  <2>2. assignee' \in Somebody
    BY <1>1, <2>1, OrTypes DEF Reopen
  <2>3. workflow' \in States /\ StatusOf("assigned") = "todo"
    BY <1>1 DEF Reopen, States, StatusOf
  <2> QED BY <1>1, <2>2, <2>3 DEF Reopen, reviewVars
<1>2. CASE FindDependencies
  BY <1>2, PhaseTypes DEF FindDependencies, stateVars, reviewVars
<1>3. CASE BlockOnDependencies
  BY <1>3 DEF BlockOnDependencies, reviewVars, States
<1> QED BY <1>1, <1>2, <1>3

\* At most the current cycle is open after whatever becomes of the cycles.
LEMMA OpenCycleNext ==
    ASSUME ProtocolInvariant, ReviewEffect
    PROVE  OpenCycleIsCurrent'
<1> USE DEF ProtocolInvariant, ProtocolTypeOK, OpenCycleIsCurrent, IsOpen
<1>1. CASE UNCHANGED reviewVars \/ Submitted
  BY <1>1 DEF reviewVars, Submitted
<1>2. CASE \E n \in Cycles : Opened(n)
  BY <1>2 DEF Opened, ReviewOpen
<1>3. CASE \E n \in Cycles : Closed(n)
  BY <1>3 DEF Closed
<1> QED BY <1>1, <1>2, <1>3 DEF ReviewEffect

\* The invariant holds at first...
LEMMA ProtocolInvariantInit == ProtocolInit => ProtocolInvariant
<1> SUFFICES ASSUME ProtocolInit PROVE ProtocolInvariant
  OBVIOUS
<1>1. ProtocolTypeOK
  BY DEF ProtocolInit, ProtocolTypeOK, Somebody, NoState
<1>2. OpenCycleIsCurrent /\ Led /\ FoundWithState
  BY DEF ProtocolInit, OpenCycleIsCurrent, IsOpen, Led, FoundWithState
<1> QED BY <1>1, <1>2 DEF ProtocolInvariant

\* ... every step keeps it, ...
LEMMA ProtocolInvariantNext == ProtocolInvariant /\ [ProtocolNext]_vars => ProtocolInvariant'
<1> SUFFICES ASSUME ProtocolInvariant, [ProtocolNext]_vars PROVE ProtocolInvariant'
  OBVIOUS
<1>1. CASE ProtocolNext
  BY <1>1, StepsStore, StoresTypes, OthersKeepTypes, OpenCycleNext DEF ProtocolInvariant
<1>2. CASE UNCHANGED vars
  BY <1>2 DEF vars, stateVars, reviewVars, ProtocolInvariant, ProtocolTypeOK, OpenCycleIsCurrent,
              IsOpen, Led, FoundWithState
<1> QED BY <1>1, <1>2

\* ... and so it always holds.
LEMMA ProtocolInvariantAlways == ProtocolSpec => []ProtocolInvariant
BY ProtocolInvariantInit, ProtocolInvariantNext, PTL DEF ProtocolSpec

\* The state of an issue keeps its types, and an issue is blocked in a phase.
THEOREM ProtocolTypesCorrect == ProtocolSpec => []ProtocolTypeOK
BY ProtocolInvariantAlways, PTL DEF ProtocolInvariant

\* Whatever numbers reviewers give their cycles, only the current one is ever open.
THEOREM OneOpenCycle == ProtocolSpec => []OpenCycleIsCurrent
BY ProtocolInvariantAlways, PTL DEF ProtocolInvariant

\* Somebody is told of every issue that waits, if the project has a lead.
THEOREM WaitsAreWatched == ProtocolSpec => []EveryWaitIsWatched
<1>1. ASSUME ProtocolInvariant, Lead # NoAgent, workflow \in DOMAIN Watchers
      PROVE  Watchers[workflow] \cap Reachable # {}
  <2>1. owner["tech_lead"] # NoAgent
    BY <1>1 DEF ProtocolInvariant, Led, Watchers, Started, States, NoState
  <2>2. {"tech_lead", "human_board"} \subseteq Reachable
    BY <2>1 DEF Reachable, Owned
  <2>3. Watchers[workflow] \cap {"tech_lead", "human_board"} # {}
    BY <1>1 DEF Watchers, Started, States, Timeout
  <2> QED BY <2>2, <2>3
<1>2. ProtocolInvariant => EveryWaitIsWatched
  BY <1>1 DEF EveryWaitIsWatched
<1> QED BY <1>2, ProtocolInvariantAlways, PTL

-----------------------------------------------------------------------------
(* Where the steps lead, reviews and the life cycle.                       *)

\* Nothing is asked, and a question may be withdrawn.
AsksNothing == questions' # {} => questions # {}

Goes(From, to) == workflow \in From /\ workflow' \in to /\ UNCHANGED reviewVars /\ AsksNothing

InWork == {"assigned", "accepted", "planning", "implementing", "changes_requested"}

\* The moves of the work that is not under review, or taken out of it.
WorkMoves ==
    \/ Goes({NoState, "backlog", "blocked"} \cup InWork, InWork)
    \/ Goes(InWork \cup Reviews, {"blocked"})
    \/ Goes(Reviews \cup {"blocked"}, {"awaiting_human_decision"})
    \/ Goes({"approved"}, {"done"})
    \/ Goes(States, {"cancelled"})
    \/ workflow \in InWork /\ workflow' = "submitted_for_review" /\ Submitted /\ AsksNothing

\* The moves that begin a review and end it.
ReviewMoves ==
    \E n \in Cycles :
        \/ /\ workflow \in {"submitted_for_review", "qa_pending"} /\ workflow' \in Reviews
           /\ Opened(n) /\ AsksNothing
        \/ /\ workflow \in Reviews \cup {"awaiting_human_decision"}
           /\ workflow' \in {"changes_requested", "qa_pending", "approved"}
           /\ Closed(n) /\ AsksNothing

\* The moves that leave the workflow where it is.
Stays == workflow' = workflow /\ UNCHANGED reviewVars

\* Acknowledging a question asks none.
LEMMA AcknowledgesAsksNothing == Acknowledges => AsksNothing
BY DEF Acknowledges, Unanswered, AsksNothing

\* The state after a message is the one it names.
LEMMA PostGoes ==
    ASSUME NEW after, NEW staff, Post(after, staff)
    PROVE  workflow' = after
BY DEF Post

\* A simple message stays where it is or goes on with the work.
LEMMA SimpleMoves ==
    ASSUME NEW type \in Simple, SimpleMessage(type)
    PROVE  Stays \/ WorkMoves
<1> USE SimpleRules
<1>1. type \in Types \ {"ASSIGN_TASK"}
  BY DEF Simple
<1>2. workflow \in Rules[type].from /\ workflow \in States
  BY <1>1, SentInState DEF SimpleMessage
<1>3. workflow' = After(type) /\ UNCHANGED reviewVars /\ AsksNothing
  BY PostGoes, AcknowledgesAsksNothing DEF SimpleMessage
<1>4. CASE type \in {"REPORT_PROGRESS", "NOTE"}
  BY <1>3, <1>4 DEF After, Stays
<1>5. CASE type \in {"ACK_ASSIGNMENT", "PROPOSE_PLAN"}
  BY <1>2, <1>3, <1>5 DEF After, WorkMoves, Goes, InWork, Same
<1>6. CASE type = "ESCALATE_BLOCKER"
  BY <1>2, <1>3, <1>6 DEF After, WorkMoves, Goes, InWork, Reviews, Same
<1>7. CASE type = "REQUEST_HUMAN_DECISION"
  BY <1>2, <1>3, <1>7 DEF After, WorkMoves, Goes, Same
<1>8. CASE type \in {"CLOSE_TASK", "CANCEL_TASK"}
  BY <1>2, <1>3, <1>8 DEF After, WorkMoves, Goes, Same
<1> QED BY <1>4, <1>5, <1>6, <1>7, <1>8 DEF Simple

\* So do the messages that staff the issue or take up its implementation.
LEMMA StaffMoves ==
    ASSUME Staffing \/ Working
    PROVE  Stays \/ WorkMoves
<1> USE PostGoes, AcknowledgesAsksNothing, OtherRules
<1>1. CASE Staffing
  <2>1. PICK target, role, reviewer, qa :
           \/ \E lead : AssignTask(target, role, lead, reviewer, qa)
           \/ \E byPm \in BOOLEAN : Reassign(byPm, target, role, reviewer, qa)
    BY <1>1 DEF Staffing
  <2>2. CASE \E lead : AssignTask(target, role, lead, reviewer, qa)
    <3>1. workflow \in {NoState, "backlog"}
      BY <2>2 DEF AssignTask, MaySend
    <3>2. workflow' = "assigned" /\ UNCHANGED reviewVars /\ AsksNothing
      BY <2>2 DEF AssignTask
    <3> QED BY <3>1, <3>2 DEF WorkMoves, Goes, InWork
  <2>3. CASE \E byPm \in BOOLEAN : Reassign(byPm, target, role, reviewer, qa)
    <3>1. workflow \in InWork \cup {"blocked"}
      BY <2>3 DEF Reassign, MaySend, InWork
    <3>2. workflow' \in InWork /\ UNCHANGED reviewVars /\ AsksNothing
      BY <2>3 DEF Reassign, InWork
    <3> QED BY <3>1, <3>2 DEF WorkMoves, Goes
  <2> QED BY <2>1, <2>2, <2>3
<1>2. CASE \E type \in {"START_IMPLEMENTATION", "ACK_CHANGE_REQUEST"} :
              \E s \in MaySend(type) : Implement(s, type)
  <2>1. workflow \in InWork
    BY <1>2 DEF MaySend, InWork
  <2>2. workflow' \in InWork /\ UNCHANGED reviewVars /\ AsksNothing
    BY <1>2 DEF Implement, InWork
  <2> QED BY <2>1, <2>2 DEF WorkMoves, Goes
<1>3. CASE SubmitForReview
  BY <1>3 DEF SubmitForReview, MaySend, WorkMoves, Submitted, InWork
<1>4. CASE \E type \in Simple : SimpleMessage(type)
  BY <1>4, SimpleMoves
<1> QED BY <1>1, <1>2, <1>3, <1>4 DEF Working

\* The messages of a review begin it or end it.
LEMMA ReviewingMoves == Reviewing => ReviewMoves
<1> SUFFICES ASSUME Reviewing PROVE ReviewMoves
  OBVIOUS
<1> USE PostGoes, AcknowledgesAsksNothing, OtherRules
<1>1. PICK n \in Cycles : StartReview(n) \/ RequestChanges(n)
                          \/ \E override \in BOOLEAN : Approve(n, override)
  BY DEF Reviewing
<1>2. CASE StartReview(n)
  <2>1. workflow \in {"submitted_for_review", "qa_pending"}
    BY <1>2 DEF StartReview, MayStartReview, MaySend
  <2>2. workflow' \in Reviews /\ Opened(n) /\ AsksNothing
    BY <1>2 DEF StartReview, Opened, MayOpen, Reviews
  <2> QED BY <2>1, <2>2 DEF ReviewMoves
<1>3. CASE RequestChanges(n)
  <2>1. workflow \in Reviews \cup {"awaiting_human_decision"}
    BY <1>3 DEF RequestChanges, MaySend
  <2>2. workflow' = "changes_requested" /\ Closed(n) /\ AsksNothing
    BY <1>3 DEF RequestChanges, Closes, Closed
  <2> QED BY <2>1, <2>2 DEF ReviewMoves
<1>4. CASE \E override \in BOOLEAN : Approve(n, override)
  <2>1. workflow \in Reviews \cup {"awaiting_human_decision"}
    BY <1>4 DEF Approve, MaySend
  <2>2. workflow' \in {"approved", "qa_pending"} /\ Closed(n) /\ AsksNothing
    BY <1>4 DEF Approve, Closes, Closed
  <2> QED BY <2>1, <2>2 DEF ReviewMoves
<1> QED BY <1>1, <1>2, <1>3, <1>4

\* Every step stays, moves by the rules, or is one of the three that go out of turn.
LEMMA StepsMove ==
    ProtocolNext => \/ Stays \/ WorkMoves \/ ReviewMoves
                    \/ Answering \/ Reopen \/ BlockOnDependencies
<1>1. (\E q \in Questions : Ask(q)) \/ TimeoutMessage \/ FindDependencies => Stays
  BY PostGoes DEF Ask, TimeoutMessage, FindDependencies, Stays, stateVars
<1> QED BY <1>1, StaffMoves, ReviewingMoves DEF ProtocolNext

\* Cycles that are kept are open as before; after a decision none is.
LEMMA ReviewOpenKept == UNCHANGED reviewVars \/ Submitted => (ReviewOpen' <=> ReviewOpen)
BY DEF reviewVars, Submitted, ReviewOpen, IsOpen

\* Opening a cycle leaves one open.
LEMMA OpenedIsOpen == ASSUME ProtocolTypeOK, NEW n \in Cycles, Opened(n) PROVE ReviewOpen'
BY DEF ProtocolTypeOK, Opened, ReviewOpen, IsOpen

\* Closing the open cycle leaves none open, as there is only one.
LEMMA ClosedIsClosed ==
    ASSUME ProtocolInvariant, NEW n \in Cycles, Closed(n)
    PROVE  ReviewOpen /\ ~ReviewOpen'
BY DEF ProtocolInvariant, ProtocolTypeOK, OpenCycleIsCurrent, Closed, ReviewOpen, IsOpen

\* Reviews keep their cycle, and approved work has none, but for an answer.
THEOREM CyclesFollowReviews == ProtocolSpec => ReviewKeepsItsCycle
<1>1. ASSUME ProtocolInvariant, [ProtocolNext]_vars, CycleFits, ~Answering
      PROVE  CycleFits'
  <2> USE <1>1 DEF CycleFits, Reviews
  <2>1. CASE UNCHANGED vars \/ Stays
    <3>1. workflow' = workflow /\ (ReviewOpen' <=> ReviewOpen)
      BY <2>1, ReviewOpenKept DEF vars, stateVars, Stays
    <3> QED BY <3>1
  <2>2. CASE WorkMoves
    BY <2>2, ReviewOpenKept DEF WorkMoves, Goes, InWork
  <2>3. CASE ReviewMoves
    BY <2>3, OpenedIsOpen, ClosedIsClosed DEF ReviewMoves, ProtocolInvariant
  <2>4. CASE Reopen \/ BlockOnDependencies
    BY <2>4 DEF Reopen, BlockOnDependencies
  <2> QED BY <2>1, <2>2, <2>3, <2>4, StepsMove
<1> QED BY <1>1, ProtocolInvariantAlways, PTL DEF ProtocolSpec, ReviewKeepsItsCycle

\* No decision by the rules falls on a submission made after its review began.
THEOREM DecisionsAreOnLatest == ProtocolSpec => DecidesOnLatestSubmission
<1>1. ASSUME ProtocolInvariant, [ProtocolNext]_vars, ReviewsLatest,
             ~(Answering \/ Reopen \/ BlockOnDependencies)
      PROVE  ReviewsLatest'
  <2> USE <1>1 DEF ReviewsLatest
  <2>1. CASE UNCHANGED vars \/ Stays
    <3>1. workflow' = workflow /\ submission' = submission /\ (ReviewOpen' <=> ReviewOpen)
      BY <2>1, ReviewOpenKept DEF vars, stateVars, reviewVars, Stays
    <3> QED BY <3>1
  <2>2. CASE WorkMoves
    BY <2>2, ReviewOpenKept DEF WorkMoves, Goes, InWork, Reviews, NoState, reviewVars
  <2>3. CASE ReviewMoves
    BY <2>3, ClosedIsClosed DEF ReviewMoves, Opened
  <2> QED BY <2>1, <2>2, <2>3, StepsMove
<1> QED BY <1>1, ProtocolInvariantAlways, PTL DEF ProtocolSpec, DecidesOnLatestSubmission

-----------------------------------------------------------------------------
(* The protocol implements ReviewLifecycle.                                *)

\* Whether a review is open is a Boolean, kept with the cycles.
LEMMA SameReview == UNCHANGED reviewVars \/ Submitted => ReviewOpen' = ReviewOpen
<1>1. ReviewOpen \in BOOLEAN /\ ReviewOpen' \in BOOLEAN
  BY DEF ReviewOpen
<1> QED BY <1>1, ReviewOpenKept

\* The stage of every state, and which states are of a stage.
LEMMA StageOfState ==
    ASSUME NEW s \in States \cup {NoState}
    PROVE  /\ StageOf(s) \in Lifecycle!Stages
           /\ s \in InWork => StageOf(s) = "working"
           /\ s \in {NoState, "backlog"} => StageOf(s) = "unassigned"
           /\ s \in {"submitted_for_review", "qa_pending"} => StageOf(s) = "submitted"
           /\ s \in Reviews => StageOf(s) = "reviewing"
           /\ s = "awaiting_human_decision" => StageOf(s) = "deciding"
           /\ s \in {"blocked", "approved", "done", "cancelled"} => StageOf(s) = s
BY DEF StageOf, Lifecycle!Stages, States, NoState, InWork, Reviews

\* A move without a decision is one of the life cycle between the stages.
LEMMA GoesIsStaged ==
    ASSUME NEW From, NEW to, Goes(From, to), NEW Stages, NEW stage,
           \A s \in From : StageOf(s) \in Stages, \A s \in to : StageOf(s) = stage
    PROVE  Lifecycle!Goes(Stages, stage)
<1>1. StageOf(workflow) \in Stages /\ StageOf(workflow') = stage
  BY DEF Goes
<1>2. UNCHANGED ReviewOpen /\ (questions' # {} => questions # {})
  BY SameReview DEF Goes, AsksNothing
<1> QED BY <1>1, <1>2 DEF Lifecycle!Goes, Lifecycle!AsksNothing

\* What any step does with the questions: it asks or it does not.
LEMMA AsksOrNot ==
    AsksNothing \/ (questions # {})' = TRUE
BY DEF AsksNothing

\* The moves of the work are those of the life cycle.
LEMMA WorkIsStaged ==
    ASSUME WorkMoves
    PROVE  Lifecycle!Next
<1> USE StageOfState
<1>1. CASE Goes({NoState, "backlog", "blocked"} \cup InWork, InWork)
  <2>1. Lifecycle!Goes({"unassigned", "working", "blocked"}, "working")
    <3>1. \A s \in {NoState, "backlog", "blocked"} \cup InWork :
             StageOf(s) \in {"unassigned", "working", "blocked"}
      BY DEF InWork, States
    <3>2. \A s \in InWork : StageOf(s) = "working"
      BY DEF InWork, States
    <3> QED BY <1>1, <3>1, <3>2, GoesIsStaged
  <2> QED BY <2>1 DEF Lifecycle!Next, Lifecycle!Staff
<1>2. CASE Goes(InWork \cup Reviews, {"blocked"})
  <2>1. \A s \in InWork \cup Reviews : StageOf(s) \in {"working", "reviewing"}
    BY DEF InWork, Reviews, States
  <2>2. \A s \in {"blocked"} : StageOf(s) = "blocked"
    BY DEF States
  <2>3. Lifecycle!Goes({"working", "reviewing"}, "blocked")
    BY <1>2, <2>1, <2>2, GoesIsStaged
  <2> QED BY <2>3 DEF Lifecycle!Next, Lifecycle!Block
<1>3. CASE Goes(Reviews \cup {"blocked"}, {"awaiting_human_decision"})
  <2>1. \A s \in Reviews \cup {"blocked"} : StageOf(s) \in {"reviewing", "blocked"}
    BY DEF Reviews, States
  <2>2. \A s \in {"awaiting_human_decision"} : StageOf(s) = "deciding"
    BY DEF States
  <2>3. Lifecycle!Goes({"reviewing", "blocked"}, "deciding")
    BY <1>3, <2>1, <2>2, GoesIsStaged
  <2> QED BY <2>3 DEF Lifecycle!Next, Lifecycle!Escalate
<1>4. CASE Goes({"approved"}, {"done"})
  <2>1. StageOf("approved") = "approved" /\ StageOf("done") = "done"
    BY DEF States
  <2>2. Lifecycle!Goes({"approved"}, "done")
    BY <1>4, <2>1, GoesIsStaged
  <2> QED BY <2>2 DEF Lifecycle!Next, Lifecycle!Close
<1>5. CASE Goes(States, {"cancelled"})
  <2>1. StageOf("cancelled") = "cancelled" /\ \A s \in States : StageOf(s) \in Lifecycle!Stages
    BY DEF States
  <2>2. Lifecycle!Goes(Lifecycle!Stages, "cancelled")
    BY <1>5, <2>1, GoesIsStaged
  <2> QED BY <2>2 DEF Lifecycle!Next, Lifecycle!Cancel
<1>6. CASE workflow \in InWork /\ workflow' = "submitted_for_review" /\ Submitted /\ AsksNothing
  <2>1. StageOf(workflow) = "working" /\ StageOf(workflow') = "submitted"
    BY <1>6 DEF InWork, States
  <2>2. UNCHANGED ReviewOpen /\ (questions' # {} => questions # {})
    BY <1>6, SameReview DEF AsksNothing
  <2>3. Lifecycle!Submit
    BY <2>1, <2>2 DEF Lifecycle!Submit, Lifecycle!Goes, Lifecycle!AsksNothing
  <2> QED BY <2>3 DEF Lifecycle!Next
<1> QED BY <1>1, <1>2, <1>3, <1>4, <1>5, <1>6 DEF WorkMoves

\* So are the moves of a review.
LEMMA ReviewIsStaged ==
    ASSUME ProtocolInvariant, ReviewMoves
    PROVE  Lifecycle!Next
<1>1. PICK n \in Cycles :
         \/ /\ workflow \in {"submitted_for_review", "qa_pending"} /\ workflow' \in Reviews
            /\ Opened(n) /\ AsksNothing
         \/ /\ workflow \in Reviews \cup {"awaiting_human_decision"}
            /\ workflow' \in {"changes_requested", "qa_pending", "approved"}
            /\ Closed(n) /\ AsksNothing
  BY DEF ReviewMoves
<1>2. Lifecycle!AsksNothing
  BY <1>1 DEF AsksNothing, Lifecycle!AsksNothing
<1>3. CASE workflow \in {"submitted_for_review", "qa_pending"} /\ workflow' \in Reviews /\ Opened(n)
  <2>1. StageOf(workflow) = "submitted" /\ StageOf(workflow') = "reviewing"
    BY <1>3, StageOfState DEF States, Reviews
  <2>2. ReviewOpen = FALSE /\ ReviewOpen' = TRUE
    BY <1>3, OpenedIsOpen DEF Opened, ProtocolInvariant, ReviewOpen
  <2> QED BY <1>2, <2>1, <2>2 DEF Lifecycle!OpenReview, Lifecycle!Next
<1>4. CASE /\ workflow \in Reviews \cup {"awaiting_human_decision"}
           /\ workflow' \in {"changes_requested", "qa_pending", "approved"} /\ Closed(n)
  <2>1. StageOf(workflow) \in {"reviewing", "deciding"}
        /\ StageOf(workflow') \in {"approved", "submitted", "working"}
    BY <1>4, StageOfState DEF States, Reviews, InWork
  <2>2. ReviewOpen = TRUE /\ ReviewOpen' = FALSE
    BY <1>4, ClosedIsClosed DEF ReviewOpen
  <2> QED BY <1>2, <2>1, <2>2 DEF Lifecycle!Decide, Lifecycle!Next
<1> QED BY <1>1, <1>3, <1>4

\* So are the steps that go out of turn, and those that stay, which may only ask.
LEMMA OthersAreStaged ==
    ASSUME ProtocolInvariant, ProtocolInvariant', Stays \/ Answering \/ Reopen \/ BlockOnDependencies
    PROVE  [Lifecycle!Next]_(Lifecycle!vars)
<1>1. CASE Stays
  <2>1. UNCHANGED ReviewOpen /\ StageOf(workflow') = StageOf(workflow)
    BY <1>1, SameReview DEF Stays
  <2>2. Lifecycle!Withdraw \/ Lifecycle!Ask
    BY <2>1, AsksOrNot DEF Lifecycle!Withdraw, Lifecycle!Ask, Lifecycle!AsksNothing, AsksNothing
  <2> QED BY <2>2 DEF Lifecycle!Next
<1>2. CASE Answering
  <2>1. PICK q \in questions : Answer(q)
    BY <1>2 DEF Answering
  <2>2. UNCHANGED ReviewOpen /\ questions # {}
    BY <2>1, SameReview DEF Answer
  <2>3. StageOf(workflow') \in Lifecycle!Stages
    BY StageOfState DEF ProtocolInvariant, ProtocolTypeOK
  <2> QED BY <2>2, <2>3 DEF Lifecycle!Answer, Lifecycle!AsksNothing, Lifecycle!Next
<1>3. CASE Reopen
  <2>1. StageOf(workflow) \in {"done", "cancelled"} /\ StageOf(workflow') = "working"
    BY <1>3, StageOfState DEF Reopen, States, InWork
  <2>2. UNCHANGED <<ReviewOpen, questions>>
    BY <1>3, SameReview DEF Reopen
  <2> QED BY <2>1, <2>2
          DEF Lifecycle!Reopen, Lifecycle!Goes, Lifecycle!AsksNothing, Lifecycle!Next
<1>4. CASE BlockOnDependencies
  <2>1. StageOf(workflow) \in Lifecycle!Stages /\ StageOf(workflow') = "blocked"
    BY <1>4, StageOfState DEF BlockOnDependencies, ProtocolInvariant, ProtocolTypeOK, States
  <2>2. UNCHANGED <<ReviewOpen, questions>> /\ HasDependencies
    BY <1>4, SameReview DEF BlockOnDependencies, ProtocolInvariant, FoundWithState
  <2> QED BY <1>4, <2>1, <2>2
          DEF Lifecycle!AwaitDependencies, Lifecycle!Goes, Lifecycle!AsksNothing, Lifecycle!Next
<1> QED BY <1>1, <1>2, <1>3, <1>4

\* The protocol implements the life cycle of a review: work is approved only by a
\* decision that ends a review which was opened on a submission.
THEOREM ProtocolImplementsLifecycle == ProtocolSpec => ImplementsReviewLifecycle
<1>1. ProtocolInit => Lifecycle!Init
  <2> SUFFICES ASSUME ProtocolInit PROVE Lifecycle!Init
    OBVIOUS
  <2>1. StageOf(workflow) = "unassigned"
    BY StageOfState DEF ProtocolInit
  <2>2. ReviewOpen = FALSE /\ (questions # {}) = FALSE
    BY DEF ProtocolInit, ReviewOpen, IsOpen
  <2> QED BY <2>1, <2>2 DEF Lifecycle!Init
<1>2. ASSUME ProtocolInvariant, ProtocolInvariant', [ProtocolNext]_vars
      PROVE  [Lifecycle!Next]_(Lifecycle!vars)
  <2>1. CASE UNCHANGED vars
    <3>1. UNCHANGED <<StageOf(workflow), ReviewOpen, questions # {}>>
      BY <2>1, SameReview DEF vars, stateVars, StageOf
    <3> QED BY <3>1 DEF Lifecycle!vars
  <2>2. CASE ProtocolNext
    BY <1>2, <2>2, StepsMove, WorkIsStaged, ReviewIsStaged, OthersAreStaged
  <2> QED BY <1>2, <2>1, <2>2
<1>3. ImplementsReviewLifecycle <=> Lifecycle!Init /\ [][Lifecycle!Next]_(Lifecycle!vars)
  BY DEF ImplementsReviewLifecycle, Lifecycle!Spec
<1> QED BY <1>1, <1>2, <1>3, ProtocolInvariantAlways, PTL DEF ProtocolSpec
================================================================================
