---------------------------- MODULE ContextState ----------------------------
(***************************************************************************)
(* Completion across a tree of contexts: TaskStateMixin._complete behind   *)
(* its locks (task_state.py) and SyncContext.complete and                  *)
(* AsyncContext.complete (context.py), which go on to the parent.          *)
(*                                                                         *)
(* Completing a task in one context is atomic, as the write lock makes it; *)
(* the way up to the parent is not: between two levels any other caller    *)
(* may complete a task, or a context may be created.                       *)
(***************************************************************************)
EXTENDS TaskState

CONSTANTS
  Ctx,     \* contexts
  NoCtx,   \* the parent of a root
  Caller   \* threads and coroutines that complete tasks

ASSUME ContextStateAssumption == NoCtx \notin Ctx

VARIABLES
  created,  \* the contexts that exist
  state,    \* the task state of each
  parent,   \* _parent_context
  loop,     \* the task a LoopContext was created for, as a set
  call,     \* the complete(task) each caller is in, at the context it is about to lock
  lost      \* history: what each context's _skip_complete has swallowed

vars == <<created, state, parent, loop, call, lost>>

NoCall == [at |-> NoCtx, task |-> in_task]

Init ==
  /\ created = {}
  /\ state = [c \in Ctx |-> NewTaskState(FALSE)]
  /\ parent = [c \in Ctx |-> NoCtx]
  /\ loop = [c \in Ctx |-> {}]
  /\ call = [k \in Caller |-> NoCall]
  /\ lost = [c \in Ctx |-> {}]

(* Context.__init__ as run by create and create_child; only create takes   *)
(* skip_complete, and only create_child a parent.                          *)
Create(c, skip) ==
  /\ c \notin created
  /\ created' = created \cup {c}
  /\ state' = [state EXCEPT ![c] = NewTaskState(skip)]
  /\ UNCHANGED <<parent, loop, call, lost>>

CreateChild(c, p) ==
  /\ c \notin created /\ p \in created
  /\ created' = created \cup {c}
  /\ parent' = [parent EXCEPT ![c] = p]
  /\ UNCHANGED <<state, loop, call, lost>>

(* LoopContext.__init__ makes the loop task available from the start. *)
CreateLoop(c, t) ==
  /\ c \notin created
  /\ created' = created \cup {c}
  /\ state' = [state EXCEPT ![c] = [NewTaskState(FALSE) EXCEPT !.available = {t}]]
  /\ loop' = [loop EXCEPT ![c] = {t}]
  /\ UNCHANGED <<parent, call, lost>>

(* A caller enters complete(t) on c. *)
Begin(k, c, t) ==
  /\ call[k] = NoCall /\ c \in created
  /\ call' = [call EXCEPT ![k] = [at |-> c, task |-> t]]
  /\ UNCHANGED <<created, state, parent, loop, lost>>

(* Mutant: the parent is not told. *)
CompleteHereOnly(k) ==
  LET c == call[k].at
  IN  /\ c # NoCtx
      /\ state' = [state EXCEPT ![c] = Complete(@, call[k].task)]
      /\ lost' = [lost EXCEPT ![c] = IF state[c].skip THEN @ \cup {call[k].task} ELSE @]
      /\ call' = [call EXCEPT ![k] = NoCall]
      /\ UNCHANGED <<created, parent, loop>>

(* It holds the write lock of the context it is at, completes the task     *)
(* there, and moves on to the parent, whether or not the flag swallowed it.*)
CompleteHere(k) ==
  LET c == call[k].at
      t == call[k].task
  IN  /\ c # NoCtx
      /\ state' = [state EXCEPT ![c] = Complete(@, t)]
      /\ lost' = [lost EXCEPT ![c] = IF state[c].skip THEN @ \cup {t} ELSE @]
      /\ call' = [call EXCEPT ![k] = IF parent[c] = NoCtx THEN NoCall
                                     ELSE [at |-> parent[c], task |-> t]]
      /\ UNCHANGED <<created, parent, loop>>

Next ==
  \/ \E c \in Ctx : \/ \E skip \in BOOLEAN : Create(c, skip)
                    \/ \E p \in Ctx : CreateChild(c, p)
                    \/ \E t \in Node : CreateLoop(c, t)
  \/ \E k \in Caller : \/ \E c \in Ctx : \E t \in Node : Begin(k, c, t)
                       \/ CompleteHere(k)

Spec == Init /\ [][Next]_vars

-----------------------------------------------------------------------------
(* The shape of the state.  A parent exists before its child does. *)
TypeOK ==
  /\ created \subseteq Ctx
  /\ state \in [Ctx -> TaskStates]
  /\ parent \in [Ctx -> created \cup {NoCtx}]
  /\ loop \in [Ctx -> SUBSET Node]
  /\ call \in [Caller -> [at : created \cup {NoCtx}, task : Node]]
  /\ lost \in [Ctx -> SUBSET Node]
  /\ \A c \in Ctx \ created : state[c] = NewTaskState(FALSE) /\ loop[c] = {}

(* What should be available where the tasks of done have completed: the    *)
(* tasks that have not and whose upstream tasks all have, and the task L   *)
(* of a LoopContext until it completes.                                    *)
Ready(done, L) ==
  {t \in Node \ done : \/ t \in L
                       \/ upstream_tasks[t] # {} /\ upstream_tasks[t] \subseteq done}

(* The incremental update of _available_tasks in _complete loses no ready  *)
(* task and releases none early, in whatever order callers complete tasks, *)
(* bypassed and masked ones included.                                      *)
AvailableIsReady ==
  \A c \in Ctx : state[c].available = Ready(state[c].completed, loop[c])

(* A task completed in a child is completed in its parent too, unless a    *)
(* caller is still on its way there or the parent's skip_complete has      *)
(* swallowed it.                                                           *)
ParentLearns ==
  \A c \in created : parent[c] # NoCtx =>
    \A t \in state[c].completed \ (state[parent[c]].completed \cup lost[parent[c]]) :
      \E k \in Caller : call[k] = [at |-> parent[c], task |-> t]

(* A completed task stays completed on its context and is never made       *)
(* available there again.                                                  *)
CompletedForGood ==
  [][\A c \in Ctx : /\ state[c].completed \subseteq state'[c].completed
                    /\ state'[c].available \cap state[c].completed = {}]_vars
=============================================================================
