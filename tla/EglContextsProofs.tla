------------------------- MODULE EglContextsProofs -------------------------
(***************************************************************************)
(* For any number of threads, contexts and surfaces, and whatever calls    *)
(* the threads make at the same time: threads and renderer agree on what   *)
(* is bound, so that two threads do not share a context, and a context     *)
(* that is current stays alive and marked unless it became contested.      *)
(*                                                                         *)
(* There are two inductive invariants.  HostInv is about threads and does  *)
(* not look at the marks; MarksInv is about one context that is not        *)
(* contested, and does not look at the renderer.                           *)
(***************************************************************************)
EXTENDS EglContexts, TLAPS

USE EglAssumption

\* All of TypeOK but the list of the display.
EglTypes ==
  /\ ctx \in [Contexts -> {"none", "live", "freed"}]
  /\ isCurrent \in [Contexts -> BOOLEAN] /\ toDelete \in [Contexts -> BOOLEAN]
  /\ draw \in [Contexts -> Surfaces \cup {NULL}]
  /\ handles \subseteq Contexts /\ contested \subseteq Contexts
  /\ current \in [Threads -> Contexts \cup {NULL}]
  /\ pc \in [Threads -> {"idle", "host", "bind"}]
  /\ target \in [Threads -> Bindings] /\ hostBound \in [Threads -> Bindings]

-----------------------------------------------------------------------------
\* Every step keeps the types.
LEMMA TypesStep == EglTypes /\ [Next]_vars => EglTypes'
<1> SUFFICES ASSUME EglTypes, [Next]_vars PROVE EglTypes'
  OBVIOUS
<1> USE DEF EglTypes, Bindings, None
<1>1. ASSUME NEW t \in Threads, NEW c \in Contexts, eglCreateContext(t, c)
      PROVE  EglTypes'
  BY <1>1 DEF eglCreateContext
<1>2. ASSUME NEW t \in Threads, NEW c \in Contexts, eglDestroyContext(t, c)
      PROVE  EglTypes'
  BY <1>2 DEF eglDestroyContext, Delete, CurrentElsewhere
<1>3. ASSUME NEW t \in Threads, NEW s \in Surfaces,
             eglCreateSurface(t, s) \/ eglDestroySurface(t, s)
      PROVE  EglTypes'
  BY <1>3 DEF eglCreateSurface, eglDestroySurface
<1>4. ASSUME NEW t \in Threads, NEW c \in Contexts \cup {NULL},
             NEW s \in Surfaces \cup {NULL}, eglMakeCurrent(t, c, s)
      PROVE  EglTypes'
  BY <1>4 DEF eglMakeCurrent, Contests, objVars
<1>5. ASSUME NEW t \in Threads, rcMakeCurrent(t) PROVE EglTypes'
  <2>1. UNCHANGED <<ctx, isCurrent, toDelete, draw, handles, contested, current>>
    BY <1>5 DEF rcMakeCurrent, objVars
  <2>2. target' \in [Threads -> Bindings]
    BY <1>5 DEF rcMakeCurrent
  <2>3. pc' \in [Threads -> {"idle", "host", "bind"}]
    BY <1>5 DEF rcMakeCurrent
  <2>4. hostBound' \in [Threads -> Bindings]
    BY <1>5 DEF rcMakeCurrent
  <2> QED
    BY <2>1, <2>2, <2>3, <2>4
<1>6. ASSUME NEW t \in Threads, Bind(t) PROVE EglTypes'
  BY <1>6 DEF Bind, Delete
<1>7. ASSUME NEW t \in Threads, eglTerminate(t) PROVE EglTypes'
  BY <1>7 DEF eglTerminate
<1>8. CASE UNCHANGED vars
  BY <1>8 DEF vars, objVars
<1> QED
  BY <1>1, <1>2, <1>3, <1>4, <1>5, <1>6, <1>7, <1>8 DEF Next

\* The types hold in every reachable state.
LEMMA TypesAlways == Spec => []EglTypes
<1>1. Init => EglTypes
  BY DEF Init, EglTypes, None, Bindings
<1> QED BY <1>1, TypesStep, PTL DEF Spec

-----------------------------------------------------------------------------
(* Threads and renderer.                                                    *)

\* Of what HostInv speaks only eglMakeCurrent changes anything.
LEMMA OthersKeepHost ==
  ASSUME HostInv, UNCHANGED <<current, draw, pc, target, hostBound>>
  PROVE  HostInv'
BY DEF HostInv, HostAgrees, BoundOnce, BindingsAgree

\* The renderer answers: it has bound what no other connection has, or nothing new.
LEMMA AnswerKeepsHost ==
  ASSUME EglTypes, HostInv, NEW t \in Threads, rcMakeCurrent(t)
  PROVE  HostInv'
<1> USE DEF EglTypes, Bindings, HostInv
<1>1. UNCHANGED <<current, draw>> /\ pc[t] = "host"
  BY DEF rcMakeCurrent, objVars
<1>2. CASE hostBound' = [hostBound EXCEPT ![t] = target[t]] /\ pc' = [pc EXCEPT ![t] = "bind"]
           /\ UNCHANGED target
           /\ (target[t][1] # NULL =>
                 \A u \in Threads \ {t} : hostBound[u][1] # target[t][1])
  <2>1. HostAgrees' BY <1>1, <1>2 DEF HostAgrees
  <2>2. BoundOnce' BY <1>1, <1>2 DEF BoundOnce
  <2>3. BindingsAgree' BY <1>1, <1>2 DEF BindingsAgree
  <2> QED BY <2>1, <2>2, <2>3
<1>3. CASE pc' = [pc EXCEPT ![t] = "idle"] /\ target' = [target EXCEPT ![t] = None]
           /\ UNCHANGED hostBound
  <2>1. HostAgrees' BY <1>1, <1>3 DEF HostAgrees
  <2>2. BoundOnce' BY <1>1, <1>3 DEF BoundOnce
  <2>3. BindingsAgree' BY <1>1, <1>3 DEF BindingsAgree, None
  <2> QED BY <2>1, <2>2, <2>3
<1> QED BY <1>2, <1>3 DEF rcMakeCurrent

\* The thread takes over what the renderer has bound.  No other thread that is not
\* about to release the context has it, so the surface changes for this one only.
LEMMA BindKeepsHost ==
  ASSUME EglTypes, HostInv, NEW t \in Threads, Bind(t)
  PROVE  HostInv'
<1> USE DEF EglTypes, Bindings, HostInv
<1> DEFINE c == target[t][1]
<1>1. /\ current' = [current EXCEPT ![t] = c] /\ UNCHANGED hostBound
      /\ draw' = [x \in Contexts |-> IF x = c THEN target[t][2] ELSE draw[x]]
      /\ pc' = [pc EXCEPT ![t] = "idle"] /\ pc[t] = "bind"
      /\ target' = [target EXCEPT ![t] = None]
  BY DEF Bind
<1>2. hostBound[t] = target[t] /\ target[t] = <<c, target[t][2]>>
      /\ (c = NULL => target[t] = None)
  BY <1>1 DEF BindingsAgree
<1>3. hostBound'[t] = IF current'[t] = NULL THEN None
                      ELSE <<current'[t], draw'[current'[t]]>>
  BY <1>1, <1>2
<1>4. ASSUME NEW u \in Threads \ {t}, pc'[u] # "bind"
      PROVE  hostBound'[u] = IF current'[u] = NULL THEN None
                             ELSE <<current'[u], draw'[current'[u]]>>
  <2>1. current'[u] = current[u] /\ hostBound'[u] = hostBound[u] /\ pc[u] # "bind"
    BY <1>1, <1>4
  <2>2. hostBound[u] = IF current[u] = NULL THEN None ELSE <<current[u], draw[current[u]]>>
    BY <2>1 DEF HostAgrees
  <2>3. current[u] # NULL => current[u] # c
    BY <1>2, <2>2 DEF BoundOnce
  <2> QED BY <1>1, <2>1, <2>2, <2>3
<1>5. HostAgrees' BY <1>3, <1>4 DEF HostAgrees
<1>6. BoundOnce' BY <1>1 DEF BoundOnce
<1>7. BindingsAgree' BY <1>1 DEF BindingsAgree, None
<1> QED BY <1>5, <1>6, <1>7

\* Threads and renderer agree at every step, whatever calls overlap.
THEOREM BindingCorrect == Spec => []HostInv
<1>1. Init => HostInv
  BY DEF Init, HostInv, HostAgrees, BoundOnce, BindingsAgree, None
<1>2. EglTypes /\ HostInv /\ [Next]_vars => HostInv'
  <2> SUFFICES ASSUME EglTypes, HostInv, [Next]_vars PROVE HostInv'
    OBVIOUS
  <2>1. ASSUME NEW t \in Threads, NEW c \in Contexts,
               eglCreateContext(t, c) \/ eglDestroyContext(t, c)
        PROVE  HostInv'
    BY <2>1, OthersKeepHost DEF eglCreateContext, eglDestroyContext
  <2>2. ASSUME NEW t \in Threads, NEW s \in Surfaces,
               eglCreateSurface(t, s) \/ eglDestroySurface(t, s)
        PROVE  HostInv'
    BY <2>2, OthersKeepHost DEF eglCreateSurface, eglDestroySurface
  <2>3. ASSUME NEW t \in Threads, NEW c \in Contexts \cup {NULL},
               NEW s \in Surfaces \cup {NULL}, eglMakeCurrent(t, c, s)
        PROVE  HostInv'
    <3>1. /\ UNCHANGED <<current, draw, hostBound>> /\ pc[t] = "idle"
          /\ pc' = [pc EXCEPT ![t] = "host"] /\ target' = [target EXCEPT ![t] = <<c, s>>]
          /\ c = NULL => s = NULL
      BY <2>3 DEF eglMakeCurrent, objVars
    <3> QED
      BY <3>1 DEF EglTypes, Bindings, HostInv, HostAgrees, BoundOnce, BindingsAgree, None
  <2>4. ASSUME NEW t \in Threads, rcMakeCurrent(t) PROVE HostInv'
    BY <2>4, AnswerKeepsHost
  <2>5. ASSUME NEW t \in Threads, Bind(t) PROVE HostInv'
    BY <2>5, BindKeepsHost
  <2>6. ASSUME NEW t \in Threads, eglTerminate(t) PROVE HostInv'
    BY <2>6, OthersKeepHost DEF eglTerminate
  <2>7. CASE UNCHANGED vars
    BY <2>7, OthersKeepHost DEF vars, objVars
  <2> QED BY <2>1, <2>2, <2>3, <2>4, <2>5, <2>6, <2>7 DEF Next
<1> QED BY <1>1, <1>2, TypesAlways, PTL DEF Spec

\* Two threads that have both passed the test of IS_CURRENT, or one that finds a
\* current context unmarked, do not end with the same context.
THEOREM OneThread == Spec => []CurrentInOneThread
<1>1. HostInv => CurrentInOneThread
  <2> SUFFICES ASSUME HostInv, NEW t \in Threads, NEW u \in Threads,
                      current[t] # NULL, current[t] = current[u],
                      pc[t] # "bind", pc[u] # "bind"
               PROVE  t = u
    BY DEF CurrentInOneThread
  <2>1. /\ hostBound[t] = <<current[t], draw[current[t]]>>
        /\ hostBound[u] = <<current[u], draw[current[u]]>>
    BY Zenon DEF HostInv, HostAgrees
  <2>2. hostBound[t][1] = current[t] /\ hostBound[u][1] = current[u]
    BY <2>1
  <2> QED BY <2>2 DEF HostInv, BoundOnce
<1> QED BY <1>1, BindingCorrect, PTL

\* The renderer has bound what the thread takes to be bound, whenever the thread is
\* not between the answer of the renderer and the local binding.
THEOREM HostBindingAgrees == Spec => []HostAgrees
<1>1. HostInv => HostAgrees
  BY DEF HostInv
<1> QED BY <1>1, BindingCorrect, PTL

-----------------------------------------------------------------------------
(* Contexts that are not contested.                                         *)

\* What MarksInv says of a context c, without Held.
MarkInv(c) ==
  /\ \A t, u \in Threads :
       (current[t] = c \/ target[t][1] = c) /\ (current[u] = c \/ target[u][1] = c) => t = u
  /\ \A t \in Threads : target[t][1] = c => current[t] # c
  /\ isCurrent[c] <=> \E t \in Threads : current[t] = c
  /\ isCurrent[c] => ctx[c] = "live"
  /\ toDelete[c] => isCurrent[c] \/ ctx[c] = "freed"

LEMMA MarksAre == MarksInv <=> \A c \in Contexts \ contested : MarkInv(c)
<1>1. ASSUME NEW c \in Contexts, NEW t \in Threads
      PROVE  c \in Held(t) <=> current[t] = c \/ target[t][1] = c
  BY DEF Held
<1>2. ASSUME NEW c \in Contexts
      PROVE  HeldAlone(c) /\ MarkAgrees(c) <=> MarkInv(c)
  BY <1>1, Zenon DEF HeldAlone, MarkAgrees, MarkInv
<1> QED BY <1>2 DEF MarksInv

\* A step that leaves the threads alone keeps it of a context if it keeps the mark and
\* deletes, or marks for deletion, as the mark says.
LEMMA OthersKeepMark ==
  ASSUME NEW c \in Contexts, MarkInv(c), UNCHANGED <<current, target>>,
         isCurrent'[c] = isCurrent[c],
         isCurrent[c] => ctx'[c] = ctx[c],
         toDelete'[c] => toDelete[c] \/ isCurrent[c],
         ctx[c] = "freed" => ctx'[c] = "freed"
  PROVE  MarkInv(c)'
BY DEF MarkInv

\* Binding, of a context that is alive: it is marked, and the one released unmarked.
LEMMA BindKeepsMark ==
  ASSUME EglTypes, NEW t \in Threads, Bind(t), NEW x \in Contexts, MarkInv(x)
  PROVE  MarkInv(x)'
<1> USE DEF EglTypes, Bindings
<1> DEFINE c == target[t][1]
           prev == current[t]
<1>1. /\ current' = [current EXCEPT ![t] = c] /\ UNCHANGED toDelete
      /\ target' = [target EXCEPT ![t] = None] /\ None[1] = NULL
      /\ isCurrent' = [y \in Contexts |-> (isCurrent[y] \/ y = c) /\ y # prev]
  BY DEF Bind, None
<1>2. \/ ctx' = ctx /\ (prev \in Contexts /\ prev # c => ~toDelete[prev])
      \/ /\ prev \in Contexts /\ prev # c /\ toDelete[prev]
         /\ ctx' = [ctx EXCEPT ![prev] = "freed"]
  BY DEF Bind, Delete
<1>3. c \in Contexts => ctx[c] = "live"
  BY DEF Bind, Held
<1>4. x # NULL OBVIOUS
<1>5. \A u \in Threads \ {t} : current'[u] = current[u] /\ target'[u] = target[u]
  BY <1>1
<1>6. current'[t] = c /\ target'[t][1] = NULL
  BY <1>1
<1>7. CASE x = c
  <2>1. prev # x /\ isCurrent'[x] /\ ctx'[x] = "live"
    BY <1>1, <1>2, <1>3, <1>7 DEF MarkInv
  <2>2. \A u \in Threads \ {t} : current[u] # x /\ target[u][1] # x
    BY <1>7 DEF MarkInv
  <2>3. \A u \in Threads : (current'[u] = x <=> u = t) /\ target'[u][1] # x
    BY <1>4, <1>5, <1>6, <1>7, <2>2
  <2> HIDE DEF EglTypes, Bindings
  <2> QED BY <2>1, <2>3 DEF MarkInv
<1>8. CASE x = prev /\ x # c
  <2>1. ~isCurrent'[x] /\ (toDelete'[x] => ctx'[x] = "freed")
    BY <1>1, <1>2, <1>8
  <2>2. \A u \in Threads \ {t} : current[u] # x /\ target[u][1] # x
    BY <1>8 DEF MarkInv
  <2>3. \A u \in Threads : current'[u] # x /\ target'[u][1] # x
    BY <1>4, <1>5, <1>6, <1>8, <2>2
  <2> HIDE DEF EglTypes, Bindings
  <2> QED BY <2>1, <2>3 DEF MarkInv
<1>9. CASE x # prev /\ x # c
  <2>1. isCurrent'[x] = isCurrent[x] /\ toDelete'[x] = toDelete[x] /\ ctx'[x] = ctx[x]
    BY <1>1, <1>2, <1>9
  <2>2. \A u \in Threads : /\ current'[u] = x <=> current[u] = x
                           /\ target'[u][1] = x <=> target[u][1] = x
    BY <1>4, <1>5, <1>6, <1>9
  <2> QED BY <2>1, <2>2, Zenon DEF MarkInv
<1> QED BY <1>7, <1>8, <1>9

\* A thread is about to bind a context that no thread has, or it becomes contested.
LEMMA CallKeepsMark ==
  ASSUME EglTypes, NEW t \in Threads, NEW c \in Contexts \cup {NULL},
         NEW s \in Surfaces \cup {NULL}, eglMakeCurrent(t, c, s),
         NEW x \in Contexts \ contested', MarkInv(x)
  PROVE  MarkInv(x)'
<1>1. /\ UNCHANGED <<ctx, isCurrent, toDelete, current>>
      /\ target' = [target EXCEPT ![t] = <<c, s>>]
      /\ contested' = contested \cup Contests(t, c)
      /\ c # NULL => ~isCurrent[c] \/ current[t] = c
  BY DEF eglMakeCurrent, objVars
<1>2. target'[t][1] = c /\ \A u \in Threads \ {t} : target'[u] = target[u]
  BY <1>1 DEF EglTypes
<1>3. CASE x = c
  <2>1. current[t] # x /\ \A u \in Threads \ {t} : target[u][1] # x
    BY <1>1, <1>3 DEF Contests
  <2>2. \A u \in Threads : current[u] # x
    BY <1>1, <1>3, <2>1 DEF MarkInv
  <2> QED BY <1>1, <1>2, <2>1, <2>2 DEF MarkInv
<1>4. CASE x # c
  BY <1>1, <1>2, <1>4 DEF MarkInv
<1> QED BY <1>3, <1>4

\* A context that is not contested is marked while it is current, alive, and in one
\* thread; marked for deletion it goes with its release.
THEOREM MarksCorrect == Spec => []MarksInv
<1>1. Init => MarksInv
  BY MarksAre DEF Init, MarkInv, None
<1>2. MarksInv' <=> (\A c \in Contexts \ contested : MarkInv(c))'
  BY MarksAre, PTL
<1>3. EglTypes /\ MarksInv /\ [Next]_vars => MarksInv'
  <2> SUFFICES ASSUME EglTypes, MarksInv, [Next]_vars,
                      NEW x \in Contexts, x \notin contested'
               PROVE  MarkInv(x)'
    BY <1>2
  <2>1. contested \subseteq contested'
    BY DEF Next, vars, objVars, eglCreateContext, eglDestroyContext, eglCreateSurface,
           eglDestroySurface, eglMakeCurrent, rcMakeCurrent, Bind, eglTerminate
  <2>2. MarkInv(x)
    BY <2>1, MarksAre
  <2> USE DEF EglTypes
  <2>3. ASSUME NEW t \in Threads, NEW c \in Contexts, eglCreateContext(t, c)
        PROVE  MarkInv(x)'
    <3>1. /\ UNCHANGED <<current, target, isCurrent, toDelete>>
          /\ ctx[c] = "none" /\ ctx' = [ctx EXCEPT ![c] = "live"]
      BY <2>3 DEF eglCreateContext
    <3>2. isCurrent[x] => ctx[x] = "live"
      BY <2>2 DEF MarkInv
    <3> QED BY <2>2, <3>1, <3>2, OthersKeepMark
  <2>4. ASSUME NEW t \in Threads, NEW c \in Contexts, eglDestroyContext(t, c)
        PROVE  MarkInv(x)'
    <3>1. UNCHANGED <<current, target, isCurrent>>
      BY <2>4 DEF eglDestroyContext
    <3>2. CASE current[t] = c
      <4>1. toDelete' = [toDelete EXCEPT ![c] = TRUE] /\ UNCHANGED ctx
        BY <2>4, <3>2 DEF eglDestroyContext
      <4>2. isCurrent[c] \/ x # c
        BY <2>2, <3>2 DEF MarkInv
      <4> QED BY <2>2, <3>1, <4>1, <4>2, OthersKeepMark
    <3>3. CASE current[t] # c
      <4>1. ctx' = [ctx EXCEPT ![c] = "freed"] /\ UNCHANGED toDelete
            /\ contested' = contested \cup CurrentElsewhere(t, c)
        BY <2>4, <3>3 DEF eglDestroyContext, Delete
      <4>2. x = c => \A u \in Threads : current[u] # x
        BY <3>3, <4>1 DEF CurrentElsewhere
      <4>3. x = c => ~isCurrent[x]
        BY <2>2, <4>2 DEF MarkInv
      <4> QED BY <2>2, <3>1, <4>1, <4>3, OthersKeepMark
    <3> QED BY <3>2, <3>3
  <2>5. ASSUME NEW t \in Threads, NEW s \in Surfaces,
               eglCreateSurface(t, s) \/ eglDestroySurface(t, s)
        PROVE  MarkInv(x)'
    BY <2>2, <2>5, OthersKeepMark DEF eglCreateSurface, eglDestroySurface
  <2>6. ASSUME NEW t \in Threads, NEW c \in Contexts \cup {NULL},
               NEW s \in Surfaces \cup {NULL}, eglMakeCurrent(t, c, s)
        PROVE  MarkInv(x)'
    BY <2>2, <2>6, CallKeepsMark
  <2>7. ASSUME NEW t \in Threads, rcMakeCurrent(t) PROVE MarkInv(x)'
    <3>1. /\ UNCHANGED <<ctx, isCurrent, toDelete, current>>
          /\ target' = target \/ target' = [target EXCEPT ![t] = None]
      BY <2>7 DEF rcMakeCurrent, objVars
    <3>2. \A u \in Threads : target'[u][1] = x => target[u][1] = x
      BY <3>1 DEF None
    <3> QED BY <2>2, <3>1, <3>2 DEF MarkInv
  <2>8. ASSUME NEW t \in Threads, Bind(t) PROVE MarkInv(x)'
    BY <2>2, <2>8, BindKeepsMark
  <2>9. ASSUME NEW t \in Threads, eglTerminate(t) PROVE MarkInv(x)'
    <3>1. UNCHANGED <<current, target, isCurrent>>
      BY <2>9 DEF eglTerminate
    <3>2. current[t] = x => isCurrent[x]
      BY <2>2 DEF MarkInv
    <3>3. /\ isCurrent[x] => ctx'[x] = ctx[x]
          /\ toDelete'[x] => toDelete[x] \/ isCurrent[x]
          /\ ctx[x] = "freed" => ctx'[x] = "freed"
      BY <2>9, <3>2 DEF eglTerminate
    <3> QED BY <2>2, <3>1, <3>3, OthersKeepMark
  <2>10. CASE UNCHANGED vars
    BY <2>2, <2>10, OthersKeepMark DEF vars, objVars
  <2> QED BY <2>3, <2>4, <2>5, <2>6, <2>7, <2>8, <2>9, <2>10 DEF Next
<1> QED BY <1>1, <1>3, TypesAlways, PTL DEF Spec

\* A context that is current in a thread is alive and marked, unless it was bound
\* again, bound by two threads at a time, or destroyed by another thread meanwhile.
THEOREM CurrentKept == Spec => []CurrentIsKept
<1>1. EglTypes /\ MarksInv => CurrentIsKept
  BY MarksAre DEF EglTypes, MarkInv, CurrentIsKept
<1> QED BY <1>1, MarksCorrect, TypesAlways, PTL

\* A context that was destroyed while current goes with its release, and no mark
\* IS_CURRENT outlives the binding it stands for, unless the context is contested.
THEOREM NothingLeft == Spec => []NothingLeftBehind
<1>1. MarksInv => NothingLeftBehind
  BY MarksAre DEF MarkInv, NothingLeftBehind
<1> QED BY <1>1, MarksCorrect, PTL
=============================================================================
