------------------------------ MODULE IssueProtocol ------------------------------
(***************************************************************************)
(* The workflow protocol of one issue: the messages its participants post, *)
(* each checked and applied by appendMessage in one transaction that holds *)
(* the row of the issue's protocol state; what the timeout worker posts;   *)
(* the recovery that reopens a closed issue; and the one write that comes  *)
(* from elsewhere, when a message is dispatched while other issues that    *)
(* this one depends on are unfinished.                                     *)
(*                                                                         *)
(* A message that the checks refuse changes nothing, so it is no step.     *)
(* Payloads, artifacts and their contracts are left out: the messages here *)
(* are those that satisfy them.                                            *)
(***************************************************************************)
EXTENDS Naturals, FiniteSets

CONSTANTS
    Agents, NoAgent,
    Makers, Checkers, \* agents that may be named to lead or engineer; to review or test
    Lead,             \* the lead of the issue's project, or NoAgent
    ResumeStates,     \* states that a question may name to resume at, or NoState
    HasDependencies,  \* whether the issue depends on unfinished issues
    MaxCycles,        \* bound: numbers of review cycles
    MaxQuestions      \* bound: questions open at once

States == {"backlog", "assigned", "accepted", "planning", "implementing", "submitted_for_review",
           "under_review", "qa_pending", "under_qa_review", "changes_requested",
           "awaiting_human_decision", "approved", "blocked", "done", "cancelled"}
NoState == "none"   \* the issue has no protocol state row yet; a question names no state
Phases == {"assignment", "planning", "implementing", "review"}
NoPhase == "none"
Owned == {"tech_lead", "engineer", "reviewer", "qa"}
AgentRoles == Owned \cup {"cto", "pm"}
Somebody == Agents \cup {NoAgent}
Cycles == 1..MaxCycles

ASSUME AgentsAssumption == NoAgent \notin Agents /\ Lead \in Somebody
ASSUME StaffAssumption == Makers \subseteq Agents /\ Checkers \subseteq Agents
ASSUME ResumeAssumption == ResumeStates \subseteq States \cup {NoState}
ASSUME DependencyAssumption == HasDependencies \in BOOLEAN
ASSUME CycleAssumption == MaxCycles \in Nat /\ MaxQuestions \in Nat

\* A question, as far as its answer depends on it.
Questions == [to : {"tech_lead", "reviewer", "human_board"}, byQa : BOOLEAN,
              resume : States \cup {NoState}]

VARIABLES
    workflow,       \* issue_protocol_state.workflow_state
    owner,          \* its tech lead, engineer, reviewer and QA agent
    blockedPhase,   \* its blocked_phase
    currentCycle,   \* its current_review_cycle
    cycles,         \* issue_review_cycles: "none", "open" or "closed", by number
    submission,     \* the latest SUBMIT_FOR_REVIEW: "none", "new", or "reviewed" by a cycle
    questions,      \* ASK_CLARIFICATION messages that are not acknowledged
    issueStatus,    \* issues.status
    assignee,       \* issues.assignee_agent_id
    dependencyBlock \* the phase a dispatch that found dependencies will block in, or NoPhase

stateVars == <<workflow, owner, blockedPhase, issueStatus, assignee>>
reviewVars == <<currentCycle, cycles, submission>>
vars == <<stateVars, reviewVars, questions, dependencyBlock>>

\* mapProtocolStateToIssueStatus.
StatusOf(s) ==
    CASE s = "assigned" -> "todo"
      [] s \in {"accepted", "planning", "implementing"} -> "in_progress"
      [] s \in {"submitted_for_review", "under_review", "qa_pending", "under_qa_review",
                "changes_requested", "awaiting_human_decision", "approved"} -> "in_review"
      [] OTHER -> s

Or(a, b) == IF a # NoAgent THEN a ELSE b

\* Wrong: the project's lead is not asked when nobody else is known.
KnownLead(agent) == agent

\* An issue without a tech lead has its project's.
TechLead(agent) == Or(agent, Lead)

ProtocolInit ==
    /\ workflow = NoState
    /\ owner = [role \in Owned |-> NoAgent]
    /\ blockedPhase = NoPhase
    /\ currentCycle = 0
    /\ cycles = [n \in Cycles |-> "none"]
    /\ submission = "none"
    /\ questions = {}
    /\ issueStatus = "backlog"
    /\ assignee = NoAgent
    /\ dependencyBlock = NoPhase

-----------------------------------------------------------------------------
(* The rules of every message.                                             *)

Started == States \ {"backlog"}
Reviews == {"under_review", "under_qa_review"}

Rule(from, to, roles) == [from |-> from, to |-> to, roles |-> roles]
Same == "same"

\* MESSAGE_RULES.
Rules == [
    ASSIGN_TASK |-> Rule({NoState, "backlog"}, "assigned", {"tech_lead", "cto", "pm", "human_board"}),
    ACK_ASSIGNMENT |-> Rule({"assigned"}, "accepted", {"engineer"}),
    ASK_CLARIFICATION |-> Rule(States, Same, AgentRoles),
    ANSWER_CLARIFICATION |-> Rule(States, Same, {"tech_lead", "reviewer", "human_board"}),
    PROPOSE_PLAN |-> Rule({"accepted", "planning"}, "planning", {"engineer"}),
    START_IMPLEMENTATION |->
        Rule({"accepted", "planning", "changes_requested"}, "implementing", {"engineer"}),
    REPORT_PROGRESS |-> Rule({"implementing"}, Same, {"engineer"}),
    ESCALATE_BLOCKER |->
        Rule({"assigned", "planning", "implementing", "under_review"}, "blocked", AgentRoles),
    SUBMIT_FOR_REVIEW |-> Rule({"implementing"}, "submitted_for_review", {"engineer"}),
    START_REVIEW |->
        Rule({"submitted_for_review", "qa_pending"}, Same, {"reviewer", "tech_lead", "qa", "system"}),
    REQUEST_CHANGES |->
        Rule(Reviews \cup {"awaiting_human_decision"}, "changes_requested",
             {"reviewer", "tech_lead", "qa", "human_board"}),
    ACK_CHANGE_REQUEST |-> Rule({"changes_requested"}, "implementing", {"engineer"}),
    REQUEST_HUMAN_DECISION |->
        Rule(Reviews \cup {"blocked"}, "awaiting_human_decision",
             {"reviewer", "tech_lead", "cto", "pm", "qa", "system"}),
    APPROVE_IMPLEMENTATION |->
        Rule(Reviews \cup {"awaiting_human_decision"}, Same,
             {"reviewer", "tech_lead", "cto", "qa", "human_board"}),
    CLOSE_TASK |-> Rule({"approved"}, "done", {"tech_lead", "cto", "pm", "human_board", "system"}),
    REASSIGN_TASK |->
        Rule({"assigned", "accepted", "planning", "implementing", "blocked", "changes_requested"},
             "assigned", {"tech_lead", "cto", "pm", "human_board"}),
    CANCEL_TASK |-> Rule(States, "cancelled", {"tech_lead", "cto", "pm", "human_board"}),
    NOTE |-> Rule(States, Same, AgentRoles \cup {"human_board"})]

\* Agents speak in a role; the board and the system are no agents.
Senders == [role : AgentRoles, agent : Agents]
           \cup [role : {"human_board", "system"}, agent : {NoAgent}]

\* Only the assigned engineer, reviewer, QA agent or tech lead speaks as such.
IsAssigned(s) == s.role \in Owned => owner[s.role] \in {NoAgent, s.agent}

\* Wrong: the state the message is sent in is not compared with the rule.
MaySendInAnyState(type) == {s \in Senders : s.role \in Rules[type].roles /\ IsAssigned(s)}

\* validateMessage, for everything but the staffing a message asks for.
MaySend(type) ==
    {s \in Senders : workflow \in Rules[type].from /\ s.role \in Rules[type].roles /\ IsAssigned(s)}

\* Wrong: the state itself is stored where it has a phase of its own.
PhaseIsState ==
    CASE workflow \in Reviews -> "review"
      [] workflow \in {"planning", "assigned"} -> workflow
      [] OTHER -> "implementing"

\* The phase the issue is blocked in, from the state the row has before.
PhaseBefore ==
    CASE workflow \in Reviews -> "review"
      [] workflow = "planning" -> "planning"
      [] workflow = "assigned" -> "assignment"
      [] OTHER -> "implementing"

\* The state row and the issue after a message, whatever it was.
Post(after, staff) ==
    /\ workflow' = after
    /\ owner' = staff
    /\ blockedPhase' = IF after = "blocked" THEN PhaseBefore ELSE NoPhase
    /\ issueStatus' = StatusOf(after)
    /\ assignee' = Or(staff["engineer"], staff["tech_lead"])
    /\ UNCHANGED dependencyBlock

\* Any message may name a question as its cause, which acknowledges it.
Unanswered == {questions} \cup {questions \ {q} : q \in questions}
Acknowledges == questions' \in Unanswered

After(type) == IF Rules[type].to = Same THEN workflow ELSE Rules[type].to

-----------------------------------------------------------------------------
(* The messages.                                                           *)

\* The role an assignment gives its target; all but two have the same effect.
TargetRoles == {"tech_lead", "engineer", "pm"}

\* ASSIGN_TASK staffs the issue.  Its tech lead is the target, if it is assigned as
\* such, or else the sender, a recipient, the present one or the project's.
AssignTask(target, role, lead, reviewer, qa) ==
    /\ MaySend("ASSIGN_TASK") # {}
    /\ lead \in IF role = "tech_lead" THEN {target} ELSE Makers \cup {TechLead(owner["tech_lead"])}
    /\ reviewer # target /\ qa \notin {target, reviewer}
    /\ Post("assigned",
            [tech_lead |-> lead, engineer |-> IF role = "engineer" THEN target ELSE NoAgent,
             reviewer |-> reviewer, qa |-> qa])
    /\ Acknowledges /\ UNCHANGED reviewVars

\* REASSIGN_TASK; reviewer and qa may be left as they are.  A PM that sends the
\* task back to its tech lead keeps the staff below.
Reassign(byPm, target, role, reviewer, qa) ==
    LET engineer == owner["engineer"]
        retry == byPm /\ engineer # NoAgent /\ role = "tech_lead" /\ target = owner["tech_lead"]
        same == workflow = "implementing" /\ engineer = target
    IN  /\ \E s \in MaySend("REASSIGN_TASK") : byPm <=> s.role = "pm"
        /\ target \notin {reviewer, qa}
        /\ reviewer # NoAgent => qa # reviewer
        /\ ~(workflow = "implementing" /\ engineer # NoAgent /\ target = owner["tech_lead"])
        /\ Post(IF same THEN "implementing" ELSE "assigned",
                [tech_lead |-> IF role = "tech_lead" THEN target ELSE TechLead(owner["tech_lead"]),
                 engineer |-> IF role = "engineer" THEN target
                              ELSE IF retry THEN engineer ELSE NoAgent,
                 reviewer |-> IF retry THEN owner["reviewer"] ELSE Or(reviewer, owner["reviewer"]),
                 qa |-> IF retry THEN owner["qa"] ELSE Or(qa, owner["qa"])])
        /\ Acknowledges /\ UNCHANGED reviewVars

\* Messages that need nothing but their sender and the state.
Simple == {"ACK_ASSIGNMENT", "PROPOSE_PLAN", "REPORT_PROGRESS", "ESCALATE_BLOCKER",
           "REQUEST_HUMAN_DECISION", "CLOSE_TASK", "CANCEL_TASK", "NOTE"}
SimpleMessage(type) ==
    /\ MaySend(type) # {}
    /\ Post(After(type), owner)
    /\ Acknowledges /\ UNCHANGED reviewVars

\* START_IMPLEMENTATION and ACK_CHANGE_REQUEST: without an engineer the tech lead
\* becomes the engineer, and without either the sender does.
Implement(s, type) ==
    /\ owner["engineer"] = NoAgent => owner["tech_lead"] \in {NoAgent, s.agent}
    /\ Post("implementing", [owner EXCEPT !["engineer"] = Or(@, s.agent)])
    /\ Acknowledges /\ UNCHANGED reviewVars

SubmitForReview ==
    /\ MaySend("SUBMIT_FOR_REVIEW") # {}
    /\ Post("submitted_for_review", owner)
    /\ submission' = "new"
    /\ Acknowledges /\ UNCHANGED <<currentCycle, cycles>>

IsOpen(n) == cycles[n] = "open"
ReviewOpen == \E n \in Cycles : IsOpen(n)

\* Wrong: nobody asks whether a cycle is open.
MayOpenAnother(n) == submission # "none" /\ cycles[n] = "none"

MayOpen(n) == ~ReviewOpen /\ submission # "none" /\ cycles[n] = "none"

\* START_REVIEW opens a cycle under the number its sender gives it; QA starts the
\* first review only as the reviewer.
MayStartReview ==
    {s \in MaySend("START_REVIEW") :
        workflow = "submitted_for_review" /\ s.role = "qa" => s.agent = owner["reviewer"]}
StartReview(n) ==
    /\ MayStartReview # {} /\ MayOpen(n)
    /\ Post(IF workflow = "qa_pending" THEN "under_qa_review" ELSE "under_review", owner)
    /\ cycles' = [cycles EXCEPT ![n] = "open"]
    /\ currentCycle' = n
    /\ submission' = "reviewed"
    /\ Acknowledges

\* Wrong: the latest cycle is closed, open or not.
ClosesAny(n) ==
    /\ n = currentCycle
    /\ cycles' = [cycles EXCEPT ![n] = "closed"]
    /\ Acknowledges /\ UNCHANGED <<currentCycle, submission>>

\* Wrong: the outcome is stored, but not when the cycle was closed.
ClosesNothing(n) == IsOpen(n) /\ Acknowledges /\ UNCHANGED reviewVars

Closes(n) ==
    /\ IsOpen(n)
    /\ cycles' = [cycles EXCEPT ![n] = "closed"]
    /\ Acknowledges /\ UNCHANGED <<currentCycle, submission>>

\* REQUEST_CHANGES; the board only decides what was brought before it.
RequestChanges(n) ==
    /\ \E s \in MaySend("REQUEST_CHANGES") :
          s.role = "human_board" => workflow = "awaiting_human_decision"
    /\ Post("changes_requested", owner)
    /\ Closes(n)

\* APPROVE_IMPLEMENTATION: with a QA agent a review is only the first of two, unless
\* QA or the board approves, or the approval calls itself a human override.
IsFinal(s) == workflow # "under_review" \/ owner["qa"] = NoAgent \/ s.role \in {"human_board", "qa"}
Approve(n, override) ==
    /\ submission # "none"
    /\ \E s \in MaySend("APPROVE_IMPLEMENTATION") :
          Post(IF IsFinal(s) \/ override THEN "approved" ELSE "qa_pending", owner)
    /\ Closes(n)

Ask(q) ==
    /\ q.resume \in ResumeStates
    /\ \E s \in MaySend("ASK_CLARIFICATION") : q.byQa <=> s.role = "qa"
    /\ q \notin questions /\ Cardinality(questions) < MaxQuestions
    /\ Post(workflow, owner)
    /\ \E rest \in Unanswered : questions' = rest \cup {q}
    /\ UNCHANGED reviewVars

\* resolveClarificationResumeWorkflowState.
Resume(q) ==
    LET review == IF q.byQa THEN "under_qa_review" ELSE "under_review"
    IN  CASE q.resume # NoState -> q.resume
          [] q.resume = NoState /\ workflow = "blocked" ->
                CASE blockedPhase = "assignment" -> "assigned"
                  [] blockedPhase = "planning" -> "planning"
                  [] blockedPhase = "review" -> review
                  [] OTHER -> "implementing"
          [] q.resume = NoState /\ workflow = "awaiting_human_decision" -> review
          [] OTHER -> workflow

\* ANSWER_CLARIFICATION, by the role that was asked.
Answer(q) ==
    /\ \E s \in MaySend("ANSWER_CLARIFICATION") : s.role = q.to
    /\ Post(Resume(q), owner)
    /\ questions' = questions \ {q}
    /\ UNCHANGED reviewVars

-----------------------------------------------------------------------------
(* The timeout worker, the recovery, and dependencies.                     *)

\* TIMEOUT_RULES: who is reminded in a state, and whom it is escalated to.
Timeout(reminder, escalation) == {reminder, escalation}
Watchers ==
    [s \in Started \ {"done", "cancelled"} |->
        CASE s \in {"assigned", "accepted", "planning", "implementing", "changes_requested"} ->
                Timeout("engineer", "tech_lead")
          [] s \in {"submitted_for_review", "under_review"} -> Timeout("reviewer", "tech_lead")
          [] s \in {"qa_pending", "under_qa_review"} -> Timeout("qa", "tech_lead")
          [] s \in {"blocked", "approved"} -> Timeout("tech_lead", "human_board")
          [] s = "awaiting_human_decision" -> Timeout("human_board", "human_board")]

\* resolveRecipient.
Reachable == {"human_board"} \cup {role \in Owned : owner[role] # NoAgent}

\* SYSTEM_REMINDER and TIMEOUT_ESCALATION: the tick posts them for a state it read,
\* and the post is refused when the state is another by then.
TimeoutMessage ==
    /\ workflow \in DOMAIN Watchers
    /\ Watchers[workflow] \cap Reachable # {}
    /\ Post(workflow, owner)
    /\ UNCHANGED <<questions, reviewVars>>

\* reopenForRecovery; the route offers it for issues that were closed.
Reopen ==
    /\ workflow \in {"done", "cancelled"}
    /\ workflow' = "assigned"
    /\ blockedPhase' = NoPhase
    /\ issueStatus' = StatusOf("assigned")
    /\ assignee' = Or(owner["engineer"], Or(owner["tech_lead"], assignee))
    /\ UNCHANGED <<owner, reviewVars, questions, dependencyBlock>>

\* dispatchMessage reads the state of an issue with unfinished dependencies...
FindDependencies ==
    /\ HasDependencies /\ workflow # NoState /\ dependencyBlock = NoPhase
    /\ dependencyBlock' = PhaseBefore
    /\ UNCHANGED <<stateVars, reviewVars, questions>>

\* ... and blocks the issue, in whatever state it is by then.
BlockOnDependencies ==
    /\ dependencyBlock # NoPhase
    /\ workflow' = "blocked"
    /\ blockedPhase' = dependencyBlock
    /\ issueStatus' = "blocked"
    /\ dependencyBlock' = NoPhase
    /\ UNCHANGED <<owner, assignee, reviewVars, questions>>

-----------------------------------------------------------------------------

Staffing ==
    \E target \in Makers, role \in TargetRoles, reviewer, qa \in Checkers \cup {NoAgent} :
        \/ \E lead \in Somebody :
              reviewer # NoAgent /\ AssignTask(target, role, lead, reviewer, qa)
        \/ \E byPm \in BOOLEAN : Reassign(byPm, target, role, reviewer, qa)

Working ==
    \/ \E type \in Simple : SimpleMessage(type)
    \/ \E type \in {"START_IMPLEMENTATION", "ACK_CHANGE_REQUEST"} :
          \E s \in MaySend(type) : Implement(s, type)
    \/ SubmitForReview

Reviewing ==
    \E n \in Cycles :
        StartReview(n) \/ RequestChanges(n) \/ \E override \in BOOLEAN : Approve(n, override)

Answering == \E q \in questions : Answer(q)

ProtocolNext ==
    \/ Staffing \/ Working \/ Reviewing \/ Answering
    \/ \E q \in Questions : Ask(q)
    \/ TimeoutMessage \/ Reopen \/ FindDependencies \/ BlockOnDependencies

ProtocolSpec == ProtocolInit /\ [][ProtocolNext]_vars

-----------------------------------------------------------------------------
(* Properties.                                                             *)

\* Every field keeps its type, and a phase to resume in is kept exactly while the
\* issue is blocked.
ProtocolTypeOK ==
    /\ workflow \in States \cup {NoState}
    /\ owner \in [Owned -> Somebody]
    /\ blockedPhase \in Phases \cup {NoPhase}
    /\ currentCycle \in {0} \cup Cycles
    /\ cycles \in [Cycles -> {"none", "open", "closed"}]
    /\ submission \in {"none", "new", "reviewed"}
    /\ questions \subseteq Questions
    /\ issueStatus \in {"backlog", "todo", "in_progress", "in_review", "blocked", "done", "cancelled"}
    /\ assignee \in Somebody
    /\ dependencyBlock \in Phases \cup {NoPhase}
    /\ workflow = "blocked" <=> blockedPhase # NoPhase

\* The one cycle that may be open is the current one: a decision, which closes some
\* open cycle, closes the one the issue's state names, whatever numbers the
\* reviewers gave and however often the issue was taken out of a review.
OpenCycleIsCurrent == \A n \in Cycles : IsOpen(n) => n = currentCycle

\* An issue is under review exactly as long as a cycle is open, as far as the state
\* says which: but an issue taken out of a review takes its open cycle along.
CycleFits ==
    /\ workflow \in Reviews => ReviewOpen
    /\ workflow \in {"qa_pending", "approved", "done"} => ~ReviewOpen

\* No message but an answer to a question, and no reminder, recovery or dependency,
\* puts an issue under review without a cycle, or beyond its review with one.
ReviewKeepsItsCycle == [][CycleFits /\ ~Answering => CycleFits']_vars

\* A review that is open anywhere but before the next START_REVIEW, or after the end,
\* is of the latest submission.
ReviewsLatest ==
    ReviewOpen /\ workflow \notin {"submitted_for_review", "done", "cancelled"} =>
        submission = "reviewed"

\* Whatever the participants do, blockers, reassignments and human decisions in the
\* middle of a review included, no decision falls on work that was submitted again
\* since its review began; only an answer, a recovery or dependencies can lead there.
DecidesOnLatestSubmission ==
    [][ReviewsLatest /\ ~(Answering \/ Reopen \/ BlockOnDependencies) => ReviewsLatest']_vars

\* In a project with a lead, an issue that waits for somebody always has somebody
\* the timeout worker reminds or escalates to, however it was staffed.
EveryWaitIsWatched ==
    Lead # NoAgent /\ workflow \in DOMAIN Watchers => Watchers[workflow] \cap Reachable # {}

StageOf(s) ==
    CASE s \in {NoState, "backlog"} -> "unassigned"
      [] s \in {"assigned", "accepted", "planning", "implementing", "changes_requested"} -> "working"
      [] s \in {"submitted_for_review", "qa_pending"} -> "submitted"
      [] s \in Reviews -> "reviewing"
      [] s = "awaiting_human_decision" -> "deciding"
      [] OTHER -> s

Lifecycle == INSTANCE ReviewLifecycle
    WITH Dependent <- HasDependencies, stage <- StageOf(workflow), review <- ReviewOpen,
         asked <- questions # {}

\* The protocol is a ReviewLifecycle: every approval ends a review that was opened on
\* a submission, and every message, recovery and write of a dispatch is one of its
\* moves; it strays from them only by an answer to a question that was asked.
ImplementsReviewLifecycle == Lifecycle!Spec
================================================================================
