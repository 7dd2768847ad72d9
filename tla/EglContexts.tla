---------------------------- MODULE EglContexts ----------------------------
(***************************************************************************)
(* Contexts and surfaces of the EGL front end (egl.cpp, eglDisplay.cpp).   *)
(* Each thread has a current context and a connection of its own to the    *)
(* renderer; the flags of the contexts, IS_CURRENT and TO_DELETE, and the  *)
(* lists of the display are shared by the threads, and only the lists have *)
(* a lock.                                                                 *)
(*                                                                         *)
(* eglMakeCurrent is three steps: it tests IS_CURRENT, asks the renderer,  *)
(* and binds; the other calls are one step.  The threads call with any     *)
(* valid handle at any time.  An object is created once, and a call that   *)
(* is about to use a context that has been freed does not go on: nothing   *)
(* can be said of what it does.  The draw and the read surface of a        *)
(* context are the same one.                                               *)
(***************************************************************************)
EXTENDS Naturals, Sequences, SequencesExt

CONSTANTS
  Threads,      (* threads of the application                             *)
  Contexts,     (* contexts it creates                                    *)
  Surfaces,     (* surfaces it creates                                    *)
  NULL          (* EGL_NO_CONTEXT, EGL_NO_SURFACE                         *)

ASSUME EglAssumption == NULL \notin Contexts \cup Surfaces

VARIABLES
  \* EGLContext_t and egl_surface_t
  ctx,          (* "none" before it is created, "live", "freed"           *)
  isCurrent,    (* flags & IS_CURRENT                                     *)
  toDelete,     (* flags & TO_DELETE                                      *)
  draw,         (* the surfaces of a context                              *)
  surf,         (* "none", "live", "freed"                                *)
  contexts,     (* m_contexts of the display                              *)
  \* EGLThreadInfo, and the eglMakeCurrent in progress
  current,      (* currentContext                                         *)
  pc,           (* "idle", "host" before the renderer answers, "bind"     *)
  target,       (* the context and surface it is to bind                  *)
  \* the application
  handles,      (* the contexts whose handles are valid                   *)
  contested,    (* history: contexts that were bound again or by two      *)
                (* threads at a time, as said at Contests, or destroyed   *)
                (* by one thread while current in another                 *)
  \* the renderer
  hostBound     (* context and surface bound to the thread's connection   *)

objVars == <<ctx, isCurrent, toDelete, draw, surf, contexts>>
vars == <<objVars, current, pc, target, handles, contested, hostBound>>

None == <<NULL, NULL>>

Init ==
  /\ ctx = [c \in Contexts |-> "none"] /\ surf = [s \in Surfaces |-> "none"]
  /\ isCurrent = [c \in Contexts |-> FALSE]
  /\ toDelete = [c \in Contexts |-> FALSE]
  /\ draw = [c \in Contexts |-> NULL]
  /\ contexts = << >>
  /\ current = [t \in Threads |-> NULL]
  /\ pc = [t \in Threads |-> "idle"]
  /\ target = [t \in Threads |-> None]
  /\ handles = {} /\ contested = {}
  /\ hostBound = [t \in Threads |-> None]

\* The contexts a thread has, or is about to have: in eglMakeCurrent both.
Held(t) == {current[t], target[t][1]} \ {NULL}

-----------------------------------------------------------------------------
(* Contexts and surfaces.                                                   *)

eglCreateContext(t, c) ==
  /\ pc[t] = "idle" /\ ctx[c] = "none"
  /\ ctx' = [ctx EXCEPT ![c] = "live"]
  /\ contexts' = Append(contexts, c)
  /\ handles' = handles \cup {c}
  /\ UNCHANGED <<isCurrent, toDelete, draw, surf, current, pc, target, contested, hostBound>>

eglCreateSurface(t, s) ==
  /\ pc[t] = "idle" /\ surf[s] = "none"
  /\ surf' = [surf EXCEPT ![s] = "live"]
  /\ UNCHANGED <<ctx, isCurrent, toDelete, draw, contexts, current, pc, target,
                 handles, contested, hostBound>>

\* The context leaves the renderer and the list of the display, and is freed.
Delete(c) ==
  /\ ctx' = [ctx EXCEPT ![c] = "freed"]
  /\ contexts' = SelectSeq(contexts, LAMBDA d : d # c)

\* The context, if it is current in a thread other than t.
CurrentElsewhere(t, c) == {d \in {c} : \E u \in Threads \ {t} : current[u] = d}

\* Mutant: deleted even while it is current.
eglDestroyContext_AtOnce(t, c) ==
  /\ pc[t] = "idle" /\ c \in handles
  /\ Delete(c) /\ handles' = handles \ {c} /\ contested' = contested \cup CurrentElsewhere(t, c)
  /\ UNCHANGED <<isCurrent, toDelete, draw, surf, current, pc, target, hostBound>>

\* Only a context that is current in the calling thread is kept.
eglDestroyContext(t, c) ==
  /\ pc[t] = "idle" /\ c \in handles
  /\ IF current[t] = c
     THEN toDelete' = [toDelete EXCEPT ![c] = TRUE] /\ UNCHANGED <<ctx, contexts>>
     ELSE Delete(c) /\ UNCHANGED toDelete
  /\ handles' = handles \ {c} /\ contested' = contested \cup CurrentElsewhere(t, c)
  /\ UNCHANGED <<isCurrent, draw, surf, current, pc, target, hostBound>>

\* A surface is freed at once.
eglDestroySurface(t, s) ==
  /\ pc[t] = "idle" /\ surf[s] = "live"
  /\ surf' = [surf EXCEPT ![s] = "freed"]
  /\ UNCHANGED <<ctx, isCurrent, toDelete, draw, contexts, current, pc, target,
                 handles, contested, hostBound>>

-----------------------------------------------------------------------------
(* eglMakeCurrent.                                                          *)

\* A call of thread t binds the context it has to another surface, or binds one that
\* a call of another thread is about to bind.
Contests(t, c) == {d \in {c} : current[t] = d \/ \E u \in Threads \ {t} : target[u][1] = d}
                  \ {NULL}

\* Binding of context c with surface s, or of neither.  Nothing to do if nothing
\* changes; EGL_BAD_ACCESS if another thread has marked the context.
eglMakeCurrent(t, c, s) ==
  /\ pc[t] = "idle"
  /\ IF c = NULL THEN s = NULL /\ current[t] # NULL
     ELSE /\ s # NULL /\ c \in handles /\ surf[s] = "live"
          /\ current[t] # c \/ draw[c] # s
          /\ ~isCurrent[c] \/ current[t] = c
  /\ pc' = [pc EXCEPT ![t] = "host"]
  /\ target' = [target EXCEPT ![t] = <<c, s>>]
  /\ contested' = contested \cup Contests(t, c)
  /\ UNCHANGED <<objVars, current, handles, hostBound>>

\* Mutant: the call goes on to bind when the renderer has refused.
rcMakeCurrent_Unchecked(t) ==
  /\ pc[t] = "host"
  /\ \/ /\ target[t][1] # NULL =>
             /\ ctx[target[t][1]] = "live"
             /\ \A u \in Threads \ {t} : hostBound[u][1] # target[t][1]
        /\ hostBound' = [hostBound EXCEPT ![t] = target[t]]
     \/ UNCHANGED hostBound
  /\ pc' = [pc EXCEPT ![t] = "bind"]
  /\ UNCHANGED <<objVars, current, target, handles, contested>>

\* rcMakeCurrent: the renderer refuses a context that is bound to another
\* connection or was destroyed, and may refuse any; then the call fails and nothing
\* has changed.
rcMakeCurrent(t) ==
  /\ pc[t] = "host"
  /\ \/ /\ target[t][1] # NULL =>
             /\ ctx[target[t][1]] = "live"
             /\ \A u \in Threads \ {t} : hostBound[u][1] # target[t][1]
        /\ hostBound' = [hostBound EXCEPT ![t] = target[t]]
        /\ pc' = [pc EXCEPT ![t] = "bind"]
        /\ UNCHANGED target
     \/ /\ pc' = [pc EXCEPT ![t] = "idle"]
        /\ target' = [target EXCEPT ![t] = None]
        /\ UNCHANGED hostBound
  /\ UNCHANGED <<objVars, current, handles, contested>>

\* The local binding: the new context is marked, then the previous one unmarked
\* (which may be the same), and deleted if it was to be.  Both are dereferenced.
Bind(t) ==
  LET c == target[t][1]
      prev == current[t]
  IN
  /\ pc[t] = "bind" /\ \A x \in Held(t) : ctx[x] = "live"
  /\ draw' = [x \in Contexts |-> IF x = c THEN target[t][2] ELSE draw[x]]
  /\ isCurrent' = [x \in Contexts |-> (isCurrent[x] \/ x = c) /\ x # prev]
  /\ current' = [current EXCEPT ![t] = c]
  /\ IF prev \notin {NULL, c} /\ toDelete[prev] THEN Delete(prev)
     ELSE UNCHANGED <<ctx, contexts>>
  /\ pc' = [pc EXCEPT ![t] = "idle"]
  /\ target' = [target EXCEPT ![t] = None]
  /\ UNCHANGED <<toDelete, surf, handles, contested, hostBound>>

-----------------------------------------------------------------------------
(* eglTerminate.  The walk over m_contexts erases the contexts that are not *)
(* current; the iterator then stands on the next one and is incremented all *)
(* the same, past the end of the circular list to its beginning.            *)

Visited[list \in Seq(Contexts), i \in Nat] ==
  IF i > Len(list) THEN {}
  ELSE {list[i]} \cup
       IF isCurrent[list[i]] THEN Visited[list, i + 1]
       ELSE LET rest == RemoveAt(list, i)
            IN  Visited[rest, IF i > Len(rest) THEN 1 ELSE i + 1]

\* Every surface is freed.  The contexts visited are marked or destroyed, as
\* IS_CURRENT says; destroyContext only marks that of the calling thread.
eglTerminate(t) ==
  LET visited == Visited[contexts, 1]
      erased == {c \in visited : ~isCurrent[c]}
  IN
  /\ pc[t] = "idle"
  /\ surf' = [s \in Surfaces |-> IF surf[s] = "live" THEN "freed" ELSE surf[s]]
  /\ ctx' = [c \in Contexts |->
               IF c \in erased \ {current[t]} THEN "freed" ELSE ctx[c]]
  /\ toDelete' = [c \in Contexts |->
                    toDelete[c] \/ (c \in visited /\ (isCurrent[c] \/ c = current[t]))]
  /\ contexts' = SelectSeq(contexts, LAMBDA c : c \notin erased)
  /\ handles' = {}
  /\ UNCHANGED <<isCurrent, draw, current, pc, target, contested, hostBound>>

-----------------------------------------------------------------------------
Next ==
  \E t \in Threads :
    \/ \E c \in Contexts : eglCreateContext(t, c) \/ eglDestroyContext(t, c)
    \/ \E s \in Surfaces : eglCreateSurface(t, s) \/ eglDestroySurface(t, s)
    \/ \E c \in Contexts \cup {NULL}, s \in Surfaces \cup {NULL} :
         eglMakeCurrent(t, c, s)
    \/ rcMakeCurrent(t) \/ Bind(t)
    \/ eglTerminate(t)

Spec == Init /\ [][Next]_vars

-----------------------------------------------------------------------------
(* Properties                                                               *)

Bindings == (Contexts \cup {NULL}) \X (Surfaces \cup {NULL})

\* Every variable stays within its declared range.
TypeOK ==
  /\ ctx \in [Contexts -> {"none", "live", "freed"}]
  /\ surf \in [Surfaces -> {"none", "live", "freed"}]
  /\ isCurrent \in [Contexts -> BOOLEAN] /\ toDelete \in [Contexts -> BOOLEAN]
  /\ draw \in [Contexts -> Surfaces \cup {NULL}]
  /\ contexts \in Seq(Contexts) /\ handles \subseteq Contexts
  /\ contested \subseteq Contexts
  /\ current \in [Threads -> Contexts \cup {NULL}]
  /\ pc \in [Threads -> {"idle", "host", "bind"}]
  /\ target \in [Threads -> Bindings] /\ hostBound \in [Threads -> Bindings]

\* A context that is current in a thread has not been freed, and is marked as
\* current: the other threads are refused it and eglTerminate spares it.  Nothing the
\* threads do with other contexts changes that, and of the calls that concern it only
\* those can that make it contested.
CurrentIsKept ==
  \A t \in Threads :
    current[t] \notin contested \cup {NULL} =>
      ctx[current[t]] = "live" /\ isCurrent[current[t]]

\* Threads that have both passed the test of IS_CURRENT for a context, or find it
\* unmarked while it is current, do not share it: what a thread takes to be current
\* follows the answer of the renderer.  Only a thread that is about to release a
\* context may have it still when another has bound it.
CurrentInOneThread ==
  \A t, u \in Threads :
    current[t] # NULL /\ current[t] = current[u] /\ pc[t] # "bind" /\ pc[u] # "bind" =>
      t = u

\* Between calls the thread and the renderer agree on what is bound: the commands
\* of the thread reach the context and the surface it takes them to reach.
HostAgrees ==
  \A t \in Threads :
    pc[t] # "bind" =>
      hostBound[t] = IF current[t] = NULL THEN None
                     ELSE <<current[t], draw[current[t]]>>

\* The renderer has a context bound to one connection at most.
BoundOnce ==
  \A t, u \in Threads :
    hostBound[t][1] # NULL /\ hostBound[t][1] = hostBound[u][1] => t = u

\* A thread binds a context with a surface, or neither; from the answer of the
\* renderer on, that is what is bound.
BindingsAgree ==
  \A t \in Threads :
    /\ pc[t] = "idle" => target[t] = None
    /\ target[t][1] = NULL => target[t] = None
    /\ pc[t] = "bind" => hostBound[t] = target[t]

\* What eglMakeCurrent keeps true step by step, on every thread and of every context:
\* CurrentInOneThread follows from it.
HostInv == HostAgrees /\ BoundOnce /\ BindingsAgree

\* A context marked for deletion lives only as long as it is current, and the mark
\* IS_CURRENT of a context goes when it is released: nothing is left behind, except
\* of contested contexts.
NothingLeftBehind ==
  \A c \in Contexts \ contested :
    isCurrent[c] \/ (toDelete[c] /\ ctx[c] = "live") =>
      \E t \in Threads : current[t] = c

\* The list of the display has live contexts only, each once; one that is not
\* contested does not leave it alive.
ListedOnce ==
  /\ IsInjective(contexts)
  /\ \A i \in DOMAIN contexts : ctx[contexts[i]] = "live"
  /\ \A c \in Contexts \ contested : ctx[c] = "live" => \E i \in DOMAIN contexts : contexts[i] = c

\* One thread at most has a context or is about to have it.
HeldAlone(c) ==
  /\ \A t, u \in Threads : c \in Held(t) /\ c \in Held(u) => t = u
  /\ \A t \in Threads : target[t][1] = c => current[t] # c

\* A context is marked exactly while it is current in a thread, and is live then; one
\* that is to be deleted is current or has been.
MarkAgrees(c) ==
  /\ isCurrent[c] <=> \E t \in Threads : current[t] = c
  /\ isCurrent[c] => ctx[c] = "live"
  /\ toDelete[c] => isCurrent[c] \/ ctx[c] = "freed"

\* The inductive invariant behind CurrentIsKept and NothingLeftBehind.
MarksInv == \A c \in Contexts \ contested : HeldAlone(c) /\ MarkAgrees(c)

\* eglTerminate: "if contexts or surfaces associated with display is current to any
\* thread, they are not released until they are no longer current".
CurrentSurfaceIsKept ==
  \A t \in Threads : current[t] # NULL => surf[draw[current[t]]] = "live"
=============================================================================
