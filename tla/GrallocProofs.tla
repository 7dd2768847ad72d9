--------------------------- MODULE GrallocProofs ---------------------------
(***************************************************************************)
(* Gralloc, for any number of processes, handles, buffers and failures:    *)
(* its types; every handle a process may lock is mapped in that process at *)
(* an address of its own; what is written reaches the host; and the        *)
(* references of the host and the lost mappings are bounded by the handles *)
(* in use and the failures.                                                *)
(***************************************************************************)
EXTENDS Gralloc, FiniteSetTheorems, TLAPS

USE GrallocAssumption

\* The parts of TypeOK, by the operations that disturb them.
HandleTypes ==
  /\ kind \in [Handles -> {"none", "own", "clone"}]
  /\ owner \in [Handles -> Processes \cup {NULL}]
  /\ buf \in [Handles -> Buffers \cup {NULL}]
  /\ base \in [Handles -> Addresses \cup {NULL}]
  /\ basePid \in [Handles -> Processes \cup {NULL}]
  /\ mappedPid \in [Handles -> Processes \cup {NULL}]
  /\ locked \in [Handles -> {"no", "read", "write"}]
FlagTypes ==
  /\ region \in [Handles -> BOOLEAN] /\ registered \in [Handles -> BOOLEAN]
  /\ dirty \in [Buffers -> BOOLEAN]
RestTypes ==
  /\ usage \in [Buffers -> Usages \cup {{}}]
  /\ maps \subseteq Processes \X Addresses \X Buffers
  /\ refs \in [Buffers -> Int]
  /\ faults \in 0 .. MaxFaults

\* The types and the fields of the handles go together: what the handles name is
\* what the operations index the buffers with.
TypeInv == TypeOK /\ HandlesInv

-----------------------------------------------------------------------------
\* The types hold initially, and no handle is in use.
LEMMA InitTypes == Init => TypeInv
BY DEF Init, TypeInv, TypeOK, HandlesInv

\* A new handle, or a deleted one, has fields of the types of the handles.
LEMMA NewHandleTypes ==
  ASSUME TypeInv, NEW h \in Handles, NEW p \in Processes \cup {NULL},
         NEW b \in Buffers \cup {NULL}, NEW k \in {"none", "own", "clone"},
         NEW a \in Addresses \cup {NULL}, NEW r \in Processes \cup {NULL},
         NEW m \in Processes \cup {NULL}, NewHandle(h, p, b, k, a, r, m)
  PROVE  HandleTypes'
BY DEF NewHandle, TypeInv, TypeOK, HandleTypes

\* Every step keeps the types of the fields of the handles.
LEMMA HandleTypesStep == TypeInv /\ [Next]_vars => HandleTypes'
<1> SUFFICES ASSUME TypeInv, [Next]_vars PROVE HandleTypes'
  OBVIOUS
<1> USE DEF TypeInv, TypeOK, HandlesInv, HandleTypes
<1>1. ASSUME NEW p \in Processes, NEW h \in Handles, NEW b \in Buffers,
             NEW u \in Usages, Alloc(p, h, b, u)
      PROVE  HandleTypes'
  <2>1. CASE UNCHANGED handleVars
    BY <2>1 DEF handleVars
  <2>2. CASE ~UNCHANGED handleVars
    <3>1. \/ NewHandle(h, p, b, "own", NULL, NULL, NULL)
          \/ \E a \in Addresses : NewHandle(h, p, b, "own", a, p, NULL)
      BY <1>1, <2>2 DEF Alloc, handleVars
    <3> QED BY <3>1, NewHandleTypes
  <2> QED BY <2>1, <2>2
<1>2. ASSUME NEW h \in Handles, NEW c \in Handles, NEW q \in Processes,
             Export(h, q, c)
      PROVE  HandleTypes'
  BY <1>2 DEF Export, NewHandle
<1>3. ASSUME NEW h \in Handles, DeleteClone(h) PROVE HandleTypes'
  BY <1>3 DEF DeleteClone, DropHandle, NewHandle
<1>4. ASSUME NEW h \in Handles, gralloc_register_buffer(h) PROVE HandleTypes'
  BY <1>4 DEF gralloc_register_buffer
<1>5. ASSUME NEW h \in Handles, gralloc_unregister_buffer(h) PROVE HandleTypes'
  BY <1>5 DEF gralloc_unregister_buffer
<1>6. ASSUME NEW h \in Handles, NEW mode \in {"read", "write"}, gralloc_lock(h, mode)
      PROVE  HandleTypes'
  BY <1>6 DEF gralloc_lock
<1>7. ASSUME NEW h \in Handles, gralloc_unlock(h) PROVE HandleTypes'
  BY <1>7 DEF gralloc_unlock
<1>8. ASSUME NEW h \in Handles, gralloc_free(h) PROVE HandleTypes'
  BY <1>8 DEF gralloc_free, DropHandle, NewHandle, handleVars
<1>9. CASE UNCHANGED vars
  BY <1>9 DEF vars, handleVars
<1> QED
  BY <1>1, <1>2, <1>3, <1>4, <1>5, <1>6, <1>7, <1>8, <1>9 DEF Next

\* Every step keeps the flags Boolean.
LEMMA FlagTypesStep == TypeInv /\ [Next]_vars => FlagTypes'
<1> SUFFICES ASSUME TypeInv, [Next]_vars PROVE FlagTypes'
  OBVIOUS
<1> USE DEF TypeInv, TypeOK, FlagTypes
<1>1. ASSUME NEW p \in Processes, NEW h \in Handles, NEW b \in Buffers,
             NEW u \in Usages, Alloc(p, h, b, u)
      PROVE  FlagTypes'
  BY <1>1, ZenonT(60) DEF Alloc, NewHandle, NoRegion, handleVars
<1>2. ASSUME NEW h \in Handles, NEW c \in Handles, NEW q \in Processes,
             Export(h, q, c)
      PROVE  FlagTypes'
  BY <1>2 DEF Export, NewHandle
<1>3. ASSUME NEW h \in Handles, DeleteClone(h) PROVE FlagTypes'
  BY <1>3 DEF DeleteClone, DropHandle, NewHandle, NoRegion
<1>4. ASSUME NEW h \in Handles, gralloc_register_buffer(h) PROVE FlagTypes'
  BY <1>4, ZenonT(60) DEF gralloc_register_buffer
<1>5. ASSUME NEW h \in Handles, gralloc_unregister_buffer(h) PROVE FlagTypes'
  BY <1>5 DEF gralloc_unregister_buffer
<1>6. ASSUME NEW h \in Handles, NEW mode \in {"read", "write"}, gralloc_lock(h, mode)
      PROVE  FlagTypes'
  BY <1>6 DEF gralloc_lock
<1>7. ASSUME NEW h \in Handles, gralloc_unlock(h) PROVE FlagTypes'
  BY <1>7, ZenonT(60) DEF gralloc_unlock
<1>8. ASSUME NEW h \in Handles, gralloc_free(h) PROVE FlagTypes'
  BY <1>8, ZenonT(60) DEF gralloc_free, DropHandle, NewHandle, NoRegion, handleVars
<1>9. CASE UNCHANGED vars
  BY <1>9 DEF vars, handleVars
<1> QED
  BY <1>1, <1>2, <1>3, <1>4, <1>5, <1>6, <1>7, <1>8, <1>9 DEF Next

\* Every step keeps the types of the buffers, the mappings and the counts.
LEMMA RestTypesStep == TypeInv /\ [Next]_vars => RestTypes'
<1> SUFFICES ASSUME TypeInv, [Next]_vars PROVE RestTypes'
  OBVIOUS
<1> USE DEF TypeInv, TypeOK, HandlesInv, RestTypes, AddRef, Fault
<1>1. ASSUME NEW p \in Processes, NEW h \in Handles, NEW b \in Buffers,
             NEW u \in Usages, Alloc(p, h, b, u)
      PROVE  RestTypes'
  BY <1>1 DEF Alloc
<1>2. ASSUME NEW h \in Handles, NEW c \in Handles, NEW q \in Processes,
             Export(h, q, c)
      PROVE  RestTypes'
  BY <1>2 DEF Export
<1>3. ASSUME NEW h \in Handles, DeleteClone(h) PROVE RestTypes'
  BY <1>3 DEF DeleteClone
<1>4. ASSUME NEW h \in Handles, gralloc_register_buffer(h) PROVE RestTypes'
  BY <1>4 DEF gralloc_register_buffer
<1>5. ASSUME NEW h \in Handles, gralloc_unregister_buffer(h) PROVE RestTypes'
  BY <1>5 DEF gralloc_unregister_buffer
<1>6. ASSUME NEW h \in Handles, NEW mode \in {"read", "write"}, gralloc_lock(h, mode)
      PROVE  RestTypes'
  BY <1>6 DEF gralloc_lock
<1>7. ASSUME NEW h \in Handles, gralloc_unlock(h) PROVE RestTypes'
  BY <1>7 DEF gralloc_unlock
<1>8. ASSUME NEW h \in Handles, gralloc_free(h) PROVE RestTypes'
  BY <1>8 DEF gralloc_free
<1>9. CASE UNCHANGED vars
  BY <1>9 DEF vars, handleVars
<1> QED
  BY <1>1, <1>2, <1>3, <1>4, <1>5, <1>6, <1>7, <1>8, <1>9 DEF Next

\* Every step keeps what relates the fields of a handle.
LEMMA HandlesInvStep == TypeInv /\ [Next]_vars => HandlesInv'
<1> SUFFICES ASSUME TypeInv, [Next]_vars PROVE HandlesInv'
  OBVIOUS
<1> USE DEF TypeInv, TypeOK, HandlesInv
<1>1. ASSUME NEW p \in Processes, NEW h \in Handles, NEW b \in Buffers,
             NEW u \in Usages, Alloc(p, h, b, u)
      PROVE  HandlesInv'
  BY <1>1 DEF Alloc, NewHandle, handleVars
<1>2. ASSUME NEW h \in Handles, NEW c \in Handles, NEW q \in Processes,
             Export(h, q, c)
      PROVE  HandlesInv'
  BY <1>2 DEF Export, NewHandle, Usable
<1>3. ASSUME NEW h \in Handles, DeleteClone(h) PROVE HandlesInv'
  BY <1>3 DEF DeleteClone, DropHandle, NewHandle
<1>4. ASSUME NEW h \in Handles, gralloc_register_buffer(h) PROVE HandlesInv'
  BY <1>4 DEF gralloc_register_buffer
<1>5. ASSUME NEW h \in Handles, gralloc_unregister_buffer(h) PROVE HandlesInv'
  BY <1>5 DEF gralloc_unregister_buffer
<1>6. ASSUME NEW h \in Handles, NEW mode \in {"read", "write"}, gralloc_lock(h, mode)
      PROVE  HandlesInv'
  BY <1>6 DEF gralloc_lock
<1>7. ASSUME NEW h \in Handles, gralloc_unlock(h) PROVE HandlesInv'
  BY <1>7 DEF gralloc_unlock
<1>8. ASSUME NEW h \in Handles, gralloc_free(h) PROVE HandlesInv'
  BY <1>8 DEF gralloc_free, DropHandle, NewHandle, handleVars
<1>9. CASE UNCHANGED vars
  BY <1>9 DEF vars, handleVars
<1> QED
  BY <1>1, <1>2, <1>3, <1>4, <1>5, <1>6, <1>7, <1>8, <1>9 DEF Next

\* A claim stands as long as its handle: no step unmaps the region under it.
LEMMA ClaimsHoldStep == TypeInv /\ ClaimsHold /\ ClaimsDiffer /\ [Next]_vars
  => ClaimsHold'
<1> SUFFICES ASSUME TypeInv, ClaimsHold, ClaimsDiffer, [Next]_vars PROVE ClaimsHold'
  OBVIOUS
<1> USE DEF TypeInv, TypeOK, HandlesInv, ClaimsHold, ClaimsDiffer, Mapped, Ashmem
<1>1. ASSUME NEW p \in Processes, NEW h \in Handles, NEW b \in Buffers,
             NEW u \in Usages, Alloc(p, h, b, u)
      PROVE  ClaimsHold'
  BY <1>1 DEF Alloc, NewHandle, handleVars
<1>2. ASSUME NEW h \in Handles, NEW c \in Handles, NEW q \in Processes,
             Export(h, q, c)
      PROVE  ClaimsHold'
  <2>1. \A x \in Handles : Mapped(x)' => x # c
    BY <1>2 DEF Export, NewHandle, Usable
  <2> QED
    BY <1>2, <2>1 DEF Export, NewHandle
<1>3. ASSUME NEW h \in Handles, DeleteClone(h) PROVE ClaimsHold'
  BY <1>3 DEF DeleteClone, DropHandle, NewHandle
<1>4. ASSUME NEW h \in Handles, gralloc_register_buffer(h) PROVE ClaimsHold'
  BY <1>4 DEF gralloc_register_buffer
<1>5. ASSUME NEW h \in Handles, gralloc_unregister_buffer(h) PROVE ClaimsHold'
  BY <1>5 DEF gralloc_unregister_buffer
<1>6. ASSUME NEW h \in Handles, NEW mode \in {"read", "write"}, gralloc_lock(h, mode)
      PROVE  ClaimsHold'
  BY <1>6 DEF gralloc_lock
<1>7. ASSUME NEW h \in Handles, gralloc_unlock(h) PROVE ClaimsHold'
  BY <1>7 DEF gralloc_unlock
<1>8. ASSUME NEW h \in Handles, gralloc_free(h) PROVE ClaimsHold'
  BY <1>8 DEF gralloc_free, DropHandle, NewHandle, handleVars
<1>9. CASE UNCHANGED vars
  BY <1>9 DEF vars, handleVars, Mapped
<1> QED
  BY <1>1, <1>2, <1>3, <1>4, <1>5, <1>6, <1>7, <1>8, <1>9 DEF Next

\* A new mapping is at an address of its own, and a copy claims none.
LEMMA ClaimsDifferStep == TypeInv /\ ClaimsHold /\ ClaimsDiffer /\ [Next]_vars
  => ClaimsDiffer'
<1> SUFFICES ASSUME TypeInv, ClaimsHold, ClaimsDiffer, [Next]_vars PROVE ClaimsDiffer'
  OBVIOUS
<1> USE DEF TypeInv, TypeOK, HandlesInv, ClaimsHold, ClaimsDiffer, Mapped, Ashmem, FreeAddress
<1>1. ASSUME NEW p \in Processes, NEW h \in Handles, NEW b \in Buffers,
             NEW u \in Usages, Alloc(p, h, b, u)
      PROVE  ClaimsDiffer'
  <2>1. \A x \in Handles : x # h /\ Mapped(x)' =>
          Mapped(x) /\ owner'[x] = owner[x] /\ base'[x] = base[x]
    BY <1>1 DEF Alloc, NewHandle, handleVars
  <2>2. \A x \in Handles : x # h /\ Mapped(x)' /\ Mapped(h)' /\ ~Mapped(h)
          /\ owner[x] = owner'[h] => base[x] # base'[h]
    <3> SUFFICES ASSUME NEW x \in Handles, x # h, Mapped(x)', Mapped(h)', ~Mapped(h),
                        owner[x] = owner'[h]
                 PROVE  base[x] # base'[h]
      OBVIOUS
    <3>1. <<owner[x], base[x], buf[x]>> \in maps /\ buf[x] \in Buffers
      BY <2>1
    <3>2. owner'[h] = p /\ base'[h] \in Addresses /\ FreeAddress(p, base'[h])
      BY <1>1 DEF Alloc, NewHandle, handleVars
    <3> QED
      BY <3>1, <3>2
  <2>3. ~Mapped(h)
    BY <1>1 DEF Alloc
  <2> QED
    BY <2>1, <2>2, <2>3
<1>2. ASSUME NEW h \in Handles, NEW c \in Handles, NEW q \in Processes,
             Export(h, q, c)
      PROVE  ClaimsDiffer'
  <2>1. \A x \in Handles : Mapped(x)' => x # c
    BY <1>2 DEF Export, NewHandle, Usable
  <2> QED
    BY <1>2, <2>1 DEF Export, NewHandle
<1>3. ASSUME NEW h \in Handles, DeleteClone(h) PROVE ClaimsDiffer'
  BY <1>3 DEF DeleteClone, DropHandle, NewHandle
<1>4. ASSUME NEW h \in Handles, gralloc_register_buffer(h) PROVE ClaimsDiffer'
  <2>1. \A x \in Handles : x # h /\ Mapped(x)' =>
          Mapped(x) /\ owner'[x] = owner[x] /\ base'[x] = base[x]
    BY <1>4 DEF gralloc_register_buffer
  <2>2. ASSUME NEW x \in Handles, x # h, Mapped(x)', Mapped(h)', ~Mapped(h),
               owner[x] = owner'[h]
        PROVE  base[x] # base'[h]
    <3>1. <<owner[x], base[x], buf[x]>> \in maps /\ buf[x] \in Buffers
      BY <2>1, <2>2
    <3>2. owner'[h] = owner[h] /\ FreeAddress(owner[h], base'[h])
      BY <1>4, <2>2 DEF gralloc_register_buffer
    <3> QED
      BY <2>2, <3>1, <3>2
  <2>3. Mapped(h) => UNCHANGED <<owner, base>>
    BY <1>4 DEF gralloc_register_buffer
  <2> QED
    BY <2>1, <2>2, <2>3
<1>5. ASSUME NEW h \in Handles, gralloc_unregister_buffer(h) PROVE ClaimsDiffer'
  BY <1>5 DEF gralloc_unregister_buffer
<1>6. ASSUME NEW h \in Handles, NEW mode \in {"read", "write"}, gralloc_lock(h, mode)
      PROVE  ClaimsDiffer'
  BY <1>6 DEF gralloc_lock
<1>7. ASSUME NEW h \in Handles, gralloc_unlock(h) PROVE ClaimsDiffer'
  BY <1>7 DEF gralloc_unlock
<1>8. ASSUME NEW h \in Handles, gralloc_free(h) PROVE ClaimsDiffer'
  BY <1>8 DEF gralloc_free, DropHandle, NewHandle, handleVars
<1>9. CASE UNCHANGED vars
  BY <1>9 DEF vars, handleVars, Mapped
<1> QED
  BY <1>1, <1>2, <1>3, <1>4, <1>5, <1>6, <1>7, <1>8, <1>9 DEF Next

-----------------------------------------------------------------------------
\* The types and what relates the fields of a handle are an inductive invariant.
LEMMA TypeInvariant == Spec => []TypeInv
<1>1. TypeInv /\ [Next]_vars => TypeInv'
  BY HandleTypesStep, FlagTypesStep, RestTypesStep, HandlesInvStep
     DEF TypeInv, TypeOK, HandleTypes, FlagTypes, RestTypes
<1> QED
  BY InitTypes, <1>1, PTL DEF Spec

\* Every variable of gralloc keeps its type: the integers that binder copies from
\* process to process name processes, buffers and addresses that exist.
THEOREM TypeCorrect == Spec => []TypeOK
<1>1. TypeInv => TypeOK
  BY DEF TypeInv
<1> QED
  BY TypeInvariant, <1>1, PTL

\* A handle that claims a mapping in its process has one, which no other handle of
\* the process claims, after any sequence of allocations, copies, registrations,
\* locks and releases, failed ones included.
THEOREM MappingCorrect == Spec => []MappingInv
<1>1. Init => ClaimsHold /\ ClaimsDiffer
  BY DEF Init, ClaimsHold, ClaimsDiffer, Mapped
<1>2. TypeInv /\ ClaimsHold /\ ClaimsDiffer /\ [Next]_vars
        => (ClaimsHold /\ ClaimsDiffer)'
  BY ClaimsHoldStep, ClaimsDifferStep
<1>3. TypeInv /\ ClaimsHold /\ ClaimsDiffer => MappingInv
  BY DEF TypeInv, MappingInv
<1> QED
  BY TypeInvariant, <1>1, <1>2, <1>3, PTL DEF Spec

\* What gralloc_lock relies on: the address in a handle that the process allocated or
\* registered is where the region is mapped in this process, so -EACCES is never the
\* answer to a legal lock and no lock returns another process's address.
THEOREM UsableMapped == Spec => []UsableIsMapped
<1>1. MappingInv => UsableIsMapped
  BY DEF MappingInv, HandlesInv, ClaimsHold, Mapped, Usable, UsableIsMapped
<1> QED
  BY MappingCorrect, <1>1, PTL

\* Unregistering or freeing a handle unmaps nothing that another usable handle of the
\* same process relies on.
THEOREM MappingsApart == Spec => []MappingsNotShared
<1>1. MappingInv => MappingsNotShared
  BY DEF MappingInv, HandlesInv, ClaimsDiffer, Mapped, Usable, MappingsNotShared
<1> QED
  BY MappingCorrect, <1>1, PTL

-----------------------------------------------------------------------------
(* What is written under a lock.                                            *)

\* A lock belongs to a handle in use, a lock for writing has recorded its region, and
\* only an ashmem region is written.
WriteInv ==
  /\ \A h \in Handles : locked[h] # "no" => Usable(h)
  /\ \A h \in Handles : locked[h] = "write" => region[h]
  /\ \A b \in Buffers : dirty[b] => Ashmem(usage[b])
  /\ WritesReachHost

\* Every step keeps WriteInv.
LEMMA WriteStep == TypeInv /\ WriteInv /\ [Next]_vars => WriteInv'
<1> SUFFICES ASSUME TypeInv, WriteInv, [Next]_vars PROVE WriteInv'
  OBVIOUS
<1> USE DEF TypeInv, TypeOK, HandlesInv, WriteInv, WritesReachHost, Usable, Ashmem,
            Fault
<1>1. ASSUME NEW p \in Processes, NEW h \in Handles, NEW b \in Buffers,
             NEW u \in Usages, Alloc(p, h, b, u)
      PROVE  WriteInv'
  BY <1>1 DEF Alloc, NewHandle, NoRegion, handleVars
<1>2. ASSUME NEW h \in Handles, NEW c \in Handles, NEW q \in Processes,
             Export(h, q, c)
      PROVE  WriteInv'
  BY <1>2 DEF Export, NewHandle
<1>3. ASSUME NEW h \in Handles, DeleteClone(h) PROVE WriteInv'
  BY <1>3 DEF DeleteClone, DropHandle, NewHandle, NoRegion
<1>4. ASSUME NEW h \in Handles, gralloc_register_buffer(h) PROVE WriteInv'
  BY <1>4 DEF gralloc_register_buffer
<1>5. ASSUME NEW h \in Handles, gralloc_unregister_buffer(h) PROVE WriteInv'
  BY <1>5 DEF gralloc_unregister_buffer
<1>6. ASSUME NEW h \in Handles, NEW mode \in {"read", "write"}, gralloc_lock(h, mode)
      PROVE  WriteInv'
  <2>1. /\ \A x \in Handles : locked'[x] # "no" => Usable(x)'
        /\ \A x \in Handles : locked'[x] = "write" => region'[x]
        /\ \A b \in Buffers : dirty'[b] => Ashmem(usage'[b])
    <3>1. \A x \in Handles : locked'[x] # "no" => Usable(x)'
      BY <1>6 DEF gralloc_lock
    <3>2. ASSUME NEW x \in Handles, locked'[x] = "write" PROVE region'[x]
      <4>1. CASE x = h
        <5>1. mode = "write" /\ region' = [region EXCEPT ![h] = region[h] \/ mode = "write"]
          BY <1>6, <3>2, <4>1 DEF gralloc_lock
        <5>2. region'[h] = (region[h] \/ mode = "write")
          BY <5>1
        <5> QED BY <4>1, <5>1, <5>2
      <4>2. CASE x # h
        BY <1>6, <3>2, <4>2 DEF gralloc_lock
      <4> QED BY <4>1, <4>2
    <3>3. ASSUME NEW b \in Buffers, dirty'[b] PROVE Ashmem(usage'[b])
      BY <1>6, <3>3 DEF gralloc_lock
    <3> QED BY <3>1, <3>2, <3>3
  <2>2. WritesReachHost'
    <3> SUFFICES ASSUME NEW b \in Buffers, dirty'[b], Host(usage'[b]), faults' = 0
                 PROVE  \E x \in Handles : buf'[x] = b /\ locked'[x] = "write"
      OBVIOUS
    <3>1. CASE dirty[b]
      <4>1. PICK x \in Handles : buf[x] = b /\ locked[x] = "write"
        BY <1>6, <3>1 DEF gralloc_lock
      <4> QED BY <1>6, <4>1 DEF gralloc_lock
    <3>2. CASE ~dirty[b]
      BY <1>6, <3>2 DEF gralloc_lock
    <3> QED BY <3>1, <3>2
  <2> QED BY <2>1, <2>2
<1>7. ASSUME NEW h \in Handles, gralloc_unlock(h) PROVE WriteInv'
  <2>1. /\ \A x \in Handles : locked'[x] # "no" => Usable(x)'
        /\ \A b \in Buffers : dirty'[b] => Ashmem(usage'[b])
    BY <1>7 DEF gralloc_unlock
  <2>2. \A x \in Handles : locked'[x] = "write" => region'[x]
    BY <1>7 DEF gralloc_unlock
  <2>3. WritesReachHost'
    <3> SUFFICES ASSUME NEW b \in Buffers, dirty'[b], Host(usage'[b]), faults' = 0
                 PROVE  \E x \in Handles : buf'[x] = b /\ locked'[x] = "write"
      OBVIOUS
    <3>1. /\ faults = 0 /\ UNCHANGED <<usage, buf>>
          /\ locked' = [locked EXCEPT ![h] = "no"]
          /\ dirty' = [dirty EXCEPT ![buf[h]] =
                         @ /\ (\/ ~region[h] \/ ~Host(usage[buf[h]])
                               \/ \E c \in Handles \ {h} :
                                    buf[c] = buf[h] /\ locked[c] = "write")]
      BY <1>7 DEF gralloc_unlock
    <3>2. dirty[b]
      BY <3>1
    <3>3. PICK x \in Handles : buf[x] = b /\ locked[x] = "write"
      BY <3>1, <3>2
    <3>4. CASE x # h
      BY <3>1, <3>3, <3>4
    <3>5. CASE x = h
      <4>1. region[h] /\ Host(usage[buf[h]]) /\ buf[h] = b
        BY <3>1, <3>3, <3>5
      <4>2. \E c \in Handles \ {h} : buf[c] = buf[h] /\ locked[c] = "write"
        BY <3>1, <4>1
      <4> QED BY <3>1, <4>1, <4>2
    <3> QED BY <3>4, <3>5
  <2> QED BY <2>1, <2>2, <2>3
<1>8. ASSUME NEW h \in Handles, gralloc_free(h) PROVE WriteInv'
  BY <1>8 DEF gralloc_free, DropHandle, NewHandle, NoRegion, handleVars
<1>9. CASE UNCHANGED vars
  BY <1>9 DEF vars, handleVars
<1> QED
  BY <1>1, <1>2, <1>3, <1>4, <1>5, <1>6, <1>7, <1>8, <1>9 DEF Next

\* While nothing has failed, what a process wrote under a lock is on the host as soon
\* as nobody has the buffer locked for writing, however many processes lock it.
THEOREM WritesArrive == Spec => []WritesReachHost
<1>1. Init => WriteInv
  BY DEF Init, WriteInv, WritesReachHost
<1>2. WriteInv => WritesReachHost
  BY DEF WriteInv
<1> QED
  BY <1>1, <1>2, WriteStep, TypeInvariant, PTL DEF Spec

-----------------------------------------------------------------------------
(* The references of the host.                                              *)

UsersOf(b) == {h \in Handles : Usable(h) /\ buf[h] = b}

\* A buffer that was not allocated has no reference; a colour buffer has one for each
\* handle in use, and some of the failures'.
RefsOf(b) ==
  /\ IsFiniteSet(UsersOf(b))
  /\ usage[b] = {} => refs[b] = 0
  /\ Host(usage[b]) /\ "composer" \notin usage[b] =>
       refs[b] >= Users(b) /\ refs[b] <= Users(b) + faults

\* The number of users is a number, and Users counts them.
LEMMA UsersCounted ==
  ASSUME NEW b, IsFiniteSet(UsersOf(b))
  PROVE  Users(b) = Cardinality(UsersOf(b)) /\ Users(b) \in Nat
BY FS_CardinalityType DEF Users, UsersOf

\* A set of one element.
LEMMA OneElement ==
  ASSUME NEW S, NEW x, S = {x}
  PROVE  IsFiniteSet(S) /\ Cardinality(S) = 1
BY FS_Singleton

\* A step that touches neither the users nor the references of a buffer.
LEMMA SameRefs ==
  ASSUME TypeOK, NEW b \in Buffers, RefsOf(b), UsersOf(b)' = UsersOf(b),
         refs'[b] = refs[b], usage'[b] = usage[b],
         faults' \in {faults, faults + 1}
  PROVE  RefsOf(b)'
<1>1. Users(b)' = Users(b) /\ Users(b) \in Nat
  BY UsersCounted DEF RefsOf, Users, UsersOf
<1> QED
  BY <1>1 DEF RefsOf, TypeOK

\* A buffer that was just allocated has the references of its handles.
LEMMA FirstRefs ==
  ASSUME NEW b, NEW n \in Nat, usage'[b] # {}, IsFiniteSet(UsersOf(b)'),
         Users(b)' = n, Host(usage'[b]) => refs'[b] = n, faults' \in Nat
  PROVE  RefsOf(b)'
BY DEF RefsOf

\* Every step keeps the count of the references of every buffer.
LEMMA RefsStep ==
  ASSUME TypeInv, \A b \in Buffers : RefsOf(b), [Next]_vars, NEW b \in Buffers
  PROVE  RefsOf(b)'
<1> USE DEF TypeInv, TypeOK, HandlesInv, Usable, Fault
<1>0. /\ IsFiniteSet(UsersOf(b)) /\ Users(b) = Cardinality(UsersOf(b))
      /\ Users(b) \in Nat /\ refs[b] \in Int /\ faults \in Nat
  BY UsersCounted DEF RefsOf
<1>c. Users(b)' = Cardinality(UsersOf(b)')
  BY DEF Users, UsersOf
<1>1. ASSUME NEW p \in Processes, NEW h \in Handles, NEW d \in Buffers,
             NEW u \in Usages, Alloc(p, h, d, u)
      PROVE  RefsOf(b)'
  <2>1. CASE b # d
    <3>1. UsersOf(b)' = UsersOf(b)
      BY <1>1, <2>1 DEF Alloc, NewHandle, handleVars, UsersOf
    <3>2. refs'[b] = refs[b] /\ usage'[b] = usage[b] /\ faults' \in {faults, faults + 1}
      BY <1>1, <2>1 DEF Alloc
    <3> QED BY <3>1, <3>2, SameRefs
  <2>2. CASE b = d
    <3>1. UsersOf(b) = {} /\ refs[b] = 0 /\ usage'[b] = u /\ u # {}
      <4>1. u # {} BY GrallocAssumption
      <4>2. usage[b] = {} /\ usage'[b] = u
        BY <1>1, <2>2 DEF Alloc
      <4>3. refs[b] = 0 BY <4>2 DEF RefsOf
      <4>4. UsersOf(b) = {} BY <4>2 DEF UsersOf
      <4> QED BY <4>1, <4>2, <4>3, <4>4
    <3>2. CASE UNCHANGED <<handleVars, refs>>
      <4>1. UsersOf(b)' = {}
        BY <3>1, <3>2 DEF handleVars, UsersOf
      <4>2. Users(b)' = 0 /\ IsFiniteSet(UsersOf(b)')
        BY <1>c, <4>1, FS_EmptySet
      <4>3. faults' \in Nat
        BY <1>1 DEF Alloc
      <4>4. refs' = refs BY <3>2
      <4>5. usage'[b] # {} /\ refs'[b] = 0 BY <3>1, <4>4
      <4> QED BY <4>2, <4>3, <4>5, FirstRefs
    <3>3. CASE ~UNCHANGED <<handleVars, refs>>
      <4>1. /\ refs'[b] = IF Host(u) THEN 1 ELSE 0
            /\ UNCHANGED faults
        <5>1. "sw" \in u \/ Host(u)
          BY <3>1, GrallocAssumption DEF Host
        <5>2. \/ /\ ~Ashmem(u) /\ refs' = [refs EXCEPT ![d] = 1]
                 /\ UNCHANGED faults
              \/ /\ refs' = [refs EXCEPT ![d] = IF Host(u) THEN 1 ELSE 0]
                 /\ UNCHANGED faults
          BY <1>1, <3>3 DEF Alloc
        <5> QED BY <2>2, <5>1, <5>2 DEF Ashmem
      <4>2. UsersOf(b)' = {h}
        BY <1>1, <2>2, <3>1, <3>3 DEF Alloc, NewHandle, UsersOf
      <4>3. Users(b)' = 1 /\ IsFiniteSet(UsersOf(b)')
        BY <1>c, <4>2, OneElement
      <4>4. usage'[b] # {} /\ (Host(usage'[b]) => refs'[b] = 1) /\ faults' \in Nat
        BY <1>0, <3>1, <4>1
      <4> QED BY <4>3, <4>4, FirstRefs
    <3> QED BY <3>2, <3>3
  <2> QED BY <2>1, <2>2
<1>2. ASSUME NEW h \in Handles, NEW c \in Handles, NEW q \in Processes,
             Export(h, q, c)
      PROVE  RefsOf(b)'
  <2>1. UsersOf(b)' = UsersOf(b)
    BY <1>2 DEF Export, NewHandle, UsersOf
  <2> QED BY <1>2, <2>1, SameRefs DEF Export
<1>3. ASSUME NEW h \in Handles, DeleteClone(h) PROVE RefsOf(b)'
  <2>1. UsersOf(b)' = UsersOf(b)
    BY <1>3 DEF DeleteClone, DropHandle, NewHandle, UsersOf
  <2> QED BY <1>3, <2>1, SameRefs DEF DeleteClone
<1>4. ASSUME NEW h \in Handles, gralloc_register_buffer(h) PROVE RefsOf(b)'
  <2>1. CASE b # buf[h]
    <3>1. UsersOf(b)' = UsersOf(b)
      BY <1>4, <2>1 DEF gralloc_register_buffer, UsersOf
    <3> QED BY <1>4, <2>1, <3>1, SameRefs DEF gralloc_register_buffer, AddRef
  <2>2. CASE b = buf[h]
    <3>1. CASE UNCHANGED registered
      <4>1. UsersOf(b)' = UsersOf(b)
        BY <1>4, <3>1 DEF gralloc_register_buffer, UsersOf
      <4>2. Users(b)' = Users(b)
        BY <1>0, <4>1 DEF Users, UsersOf
      <4>3. registered # [registered EXCEPT ![h] = TRUE]
        BY <1>4 DEF gralloc_register_buffer
      <4>4. /\ UNCHANGED usage /\ faults' = faults + 1
            /\ \/ refs'[b] = refs[b]
               \/ refs'[b] = IF Host(usage[b]) THEN refs[b] + 1 ELSE refs[b]
        BY <1>4, <2>2, <3>1, <4>3 DEF gralloc_register_buffer, AddRef
      <4>5. usage[b] # {}
        BY <1>4, <2>2 DEF gralloc_register_buffer
      <4> QED BY <1>0, <4>1, <4>2, <4>4, <4>5 DEF RefsOf
    <3>2. CASE ~UNCHANGED registered
      <4>1. UsersOf(b)' = UsersOf(b) \cup {h} /\ h \notin UsersOf(b)
        BY <1>4, <2>2, <3>2 DEF gralloc_register_buffer, UsersOf
      <4>2. Users(b)' = Users(b) + 1 /\ IsFiniteSet(UsersOf(b)')
        BY <1>0, <1>c, <4>1, FS_AddElement
      <4>3. /\ UNCHANGED <<usage, faults>>
            /\ refs'[b] = IF Host(usage[b]) THEN refs[b] + 1 ELSE refs[b]
        BY <1>4, <2>2, <3>2 DEF gralloc_register_buffer, AddRef
      <4>4. usage[b] # {}
        BY <1>4, <2>2 DEF gralloc_register_buffer
      <4> QED BY <1>0, <4>2, <4>3, <4>4 DEF RefsOf
    <3> QED BY <3>1, <3>2
  <2> QED BY <2>1, <2>2
<1>5. ASSUME NEW h \in Handles, gralloc_unregister_buffer(h) PROVE RefsOf(b)'
  <2>1. CASE b # buf[h]
    <3>1. UsersOf(b)' = UsersOf(b)
      BY <1>5, <2>1 DEF gralloc_unregister_buffer, UsersOf
    <3> QED BY <1>5, <2>1, <3>1, SameRefs DEF gralloc_unregister_buffer, AddRef
  <2>2. CASE b = buf[h]
    <3>1. UsersOf(b)' = UsersOf(b) \ {h} /\ h \in UsersOf(b)
      BY <1>5, <2>2 DEF gralloc_unregister_buffer, UsersOf
    <3>2. Users(b)' = Users(b) - 1 /\ IsFiniteSet(UsersOf(b)')
      BY <1>0, <1>c, <3>1, FS_RemoveElement
    <3>3. /\ UNCHANGED usage
          /\ \/ /\ refs'[b] = IF Host(usage[b]) THEN refs[b] - 1 ELSE refs[b]
                /\ UNCHANGED faults
             \/ refs'[b] = refs[b] /\ faults' = faults + 1
      BY <1>5, <2>2 DEF gralloc_unregister_buffer, AddRef
    <3>4. usage[b] # {}
      BY <1>5, <2>2 DEF gralloc_unregister_buffer
    <3> QED BY <1>0, <3>2, <3>3, <3>4 DEF RefsOf
  <2> QED BY <2>1, <2>2
<1>6. ASSUME NEW h \in Handles, NEW mode \in {"read", "write"}, gralloc_lock(h, mode)
      PROVE  RefsOf(b)'
  <2>1. UsersOf(b)' = UsersOf(b)
    BY <1>6 DEF gralloc_lock, UsersOf
  <2> QED BY <1>6, <2>1, SameRefs DEF gralloc_lock
<1>7. ASSUME NEW h \in Handles, gralloc_unlock(h) PROVE RefsOf(b)'
  <2>1. UsersOf(b)' = UsersOf(b)
    BY <1>7 DEF gralloc_unlock, UsersOf
  <2> QED BY <1>7, <2>1, SameRefs DEF gralloc_unlock
<1>8. ASSUME NEW h \in Handles, gralloc_free(h) PROVE RefsOf(b)'
  <2>1. CASE b # buf[h] \/ UNCHANGED <<handleVars, refs>>
    <3>1. UsersOf(b)' = UsersOf(b)
      BY <1>8, <2>1 DEF gralloc_free, DropHandle, NewHandle, handleVars, UsersOf
    <3>2. refs'[b] = refs[b] /\ UNCHANGED usage /\ faults' \in {faults, faults + 1}
      BY <1>8, <2>1 DEF gralloc_free, AddRef
    <3> QED BY <3>1, <3>2, SameRefs
  <2>2. CASE b = buf[h] /\ ~UNCHANGED <<handleVars, refs>>
    <3>1. UsersOf(b)' = UsersOf(b) \ {h} /\ h \in UsersOf(b)
      BY <1>8, <2>2 DEF gralloc_free, DropHandle, NewHandle, UsersOf
    <3>2. Users(b)' = Users(b) - 1 /\ IsFiniteSet(UsersOf(b)')
      BY <1>0, <1>c, <3>1, FS_RemoveElement
    <3>3. /\ UNCHANGED <<usage, faults>>
          /\ Host(usage[b]) /\ "composer" \notin usage[b] => refs'[b] = refs[b] - 1
      BY <1>8, <2>2 DEF gralloc_free, AddRef
    <3>4. usage[b] # {}
      BY <1>8, <2>2 DEF gralloc_free
    <3> QED BY <1>0, <3>2, <3>3, <3>4 DEF RefsOf
  <2> QED BY <2>1, <2>2
<1>9. CASE UNCHANGED vars
  <2>1. UsersOf(b)' = UsersOf(b)
    BY <1>9 DEF vars, handleVars, UsersOf
  <2> QED BY <1>9, <2>1, SameRefs DEF vars
<1> QED
  BY <1>1, <1>2, <1>3, <1>4, <1>5, <1>6, <1>7, <1>8, <1>9 DEF Next

\* A colour buffer that no composer uses lives as long as the handles that use it, and
\* is kept alive by failures alone once they are gone.
THEOREM RefsBounded == Spec => []HostRefsBounded
<1> DEFINE RefInv == \A b \in Buffers : RefsOf(b)
<1>1. Init => RefInv
  <2> SUFFICES ASSUME Init, NEW b \in Buffers PROVE RefsOf(b)
    OBVIOUS
  <2>1. UsersOf(b) = {} BY DEF Init, UsersOf, Usable
  <2> QED BY <2>1, FS_EmptySet DEF Init, RefsOf, Host
<1>2. TypeInv /\ RefInv /\ [Next]_vars => RefInv'
  BY RefsStep
<1>3. RefInv => HostRefsBounded
  BY DEF RefsOf, HostRefsBounded
<1> HIDE DEF RefInv
<1> QED
  BY <1>1, <1>2, <1>3, TypeInvariant, PTL DEF Spec

-----------------------------------------------------------------------------
(* The mappings that no handle in use claims.                               *)

Place(h) == <<owner[h], base[h], buf[h]>>
LostMaps == {m \in maps : ~\E h \in Handles : Usable(h) /\ Mapped(h) /\ Place(h) = m}
LostInv == IsFiniteSet(LostMaps) /\ Cardinality(LostMaps) <= faults

\* A step that loses nothing, or one mapping with a failure, keeps LostInv.
LEMMA LostCounted ==
  ASSUME TypeOK, LostInv, faults' \in {faults, faults + 1},
         \/ LostMaps' \subseteq LostMaps
         \/ faults' = faults + 1 /\ \E m : LostMaps' \subseteq LostMaps \cup {m}
  PROVE  LostInv'
<1>0. Cardinality(LostMaps) \in Nat /\ faults \in Nat
  BY FS_CardinalityType DEF LostInv, TypeOK
<1>1. CASE LostMaps' \subseteq LostMaps
  <2>1. /\ IsFiniteSet(LostMaps') /\ Cardinality(LostMaps') <= Cardinality(LostMaps)
        /\ Cardinality(LostMaps') \in Nat
    BY <1>1, FS_Subset, FS_CardinalityType DEF LostInv
  <2> QED BY <1>0, <2>1 DEF LostInv
<1>2. CASE faults' = faults + 1 /\ \E m : LostMaps' \subseteq LostMaps \cup {m}
  <2>1. PICK m : LostMaps' \subseteq LostMaps \cup {m}
    BY <1>2
  <2>2. /\ IsFiniteSet(LostMaps \cup {m})
        /\ Cardinality(LostMaps \cup {m}) <= Cardinality(LostMaps) + 1
    BY <1>0, FS_AddElement DEF LostInv
  <2>3. /\ IsFiniteSet(LostMaps')
        /\ Cardinality(LostMaps') <= Cardinality(LostMaps \cup {m})
        /\ Cardinality(LostMaps') \in Nat /\ Cardinality(LostMaps \cup {m}) \in Nat
    BY <2>1, <2>2, FS_Subset, FS_CardinalityType
  <2> QED BY <1>0, <1>2, <2>2, <2>3 DEF LostInv
<1> QED BY <1>1, <1>2

\* Every step keeps LostInv: a mapping is lost by an allocation whose host failed, or
\* by an unregistration that found no connection.
LEMMA LostStep == TypeInv /\ LostInv /\ [Next]_vars => LostInv'
<1> SUFFICES ASSUME TypeInv, LostInv, [Next]_vars PROVE LostInv'
  OBVIOUS
<1> USE DEF TypeInv, TypeOK, HandlesInv, Usable, Mapped, Place, Ashmem, Fault
<1>1. ASSUME NEW p \in Processes, NEW h \in Handles, NEW b \in Buffers,
             NEW u \in Usages, Alloc(p, h, b, u)
      PROVE  LostInv'
  <2>1. CASE UNCHANGED handleVars /\ faults' = faults + 1
    <3>1. PICK m : maps' \subseteq maps \cup {m}
      BY <1>1, <2>1 DEF Alloc
    <3>2. \A x \in Handles : kind[x] # "none" => usage'[buf[x]] = usage[buf[x]]
      BY <1>1 DEF Alloc
    <3>3. \A x \in Handles : Usable(x) /\ Mapped(x) =>
            Usable(x)' /\ Mapped(x)' /\ Place(x)' = Place(x)
      BY <2>1, <3>2 DEF handleVars
    <3>4. LostMaps' \subseteq LostMaps \cup {m}
      BY <3>1, <3>3 DEF LostMaps
    <3>5. \E k : LostMaps' \subseteq LostMaps \cup {k}
      BY <3>4
    <3> QED BY <2>1, <3>5, LostCounted
  <2>2. CASE UNCHANGED faults
    <3>1. kind[h] = "none" /\ usage[b] = {} /\ usage' = [usage EXCEPT ![b] = u]
      BY <1>1 DEF Alloc
    <3>2. /\ kind' = [kind EXCEPT ![h] = "own"] /\ owner' = [owner EXCEPT ![h] = p]
          /\ buf' = [buf EXCEPT ![h] = b]
          /\ registered' = [registered EXCEPT ![h] = FALSE]
          /\ mappedPid' = [mappedPid EXCEPT ![h] = NULL]
      BY <1>1, <2>2 DEF Alloc, NewHandle
    <3>3. \/ /\ UNCHANGED maps /\ base' = [base EXCEPT ![h] = NULL]
          \/ /\ "sw" \in u
             /\ \E a \in Addresses : /\ base' = [base EXCEPT ![h] = a]
                                     /\ maps' = maps \cup {<<p, a, b>>}
      BY <1>1, <2>2 DEF Alloc, NewHandle
    <3>4. \A x \in Handles : Usable(x) /\ Mapped(x) =>
            Usable(x)' /\ Mapped(x)' /\ Place(x)' = Place(x)
      BY <3>1, <3>2, <3>3
    <3>5. \A m \in maps' \ maps : Usable(h)' /\ Mapped(h)' /\ Place(h)' = m
      BY <3>1, <3>2, <3>3
    <3>6. LostMaps' \subseteq LostMaps
      BY <3>4, <3>5 DEF LostMaps
    <3> QED BY <2>2, <3>6, LostCounted
  <2> QED BY <1>1, <2>1, <2>2 DEF Alloc
<1>2. ASSUME NEW h \in Handles, NEW c \in Handles, NEW q \in Processes,
             Export(h, q, c)
      PROVE  LostInv'
  <2>1. LostMaps' \subseteq LostMaps
    BY <1>2 DEF Export, NewHandle, LostMaps
  <2> QED BY <1>2, <2>1, LostCounted DEF Export
<1>3. ASSUME NEW h \in Handles, DeleteClone(h) PROVE LostInv'
  <2>1. LostMaps' \subseteq LostMaps
    BY <1>3 DEF DeleteClone, DropHandle, NewHandle, LostMaps
  <2> QED BY <1>3, <2>1, LostCounted DEF DeleteClone
<1>4. ASSUME NEW h \in Handles, gralloc_register_buffer(h) PROVE LostInv'
  <2>1. \A x \in Handles : Usable(x) /\ Mapped(x) =>
          Usable(x)' /\ Mapped(x)' /\ Place(x)' = Place(x)
    BY <1>4 DEF gralloc_register_buffer
  <2>2. \A m \in maps' \ maps : Usable(h)' /\ Mapped(h)' /\ Place(h)' = m
    BY <1>4 DEF gralloc_register_buffer
  <2>3. LostMaps' \subseteq LostMaps
    BY <2>1, <2>2 DEF LostMaps
  <2> QED BY <1>4, <2>3, LostCounted DEF gralloc_register_buffer
<1>5. ASSUME NEW h \in Handles, gralloc_unregister_buffer(h) PROVE LostInv'
  <2>1. \A x \in Handles \ {h} : Usable(x) /\ Mapped(x) =>
          Usable(x)' /\ Mapped(x)' /\ Place(x)' = Place(x)
    BY <1>5 DEF gralloc_unregister_buffer
  <2>2. CASE UNCHANGED faults
    <3>1. maps' \subseteq maps /\ (Mapped(h) => Place(h) \notin maps')
      BY <1>5, <2>2 DEF gralloc_unregister_buffer
    <3>2. LostMaps' \subseteq LostMaps
      BY <2>1, <3>1 DEF LostMaps
    <3> QED BY <2>2, <3>2, LostCounted
  <2>3. CASE ~UNCHANGED faults
    <3>1. UNCHANGED maps /\ faults' = faults + 1
      BY <1>5, <2>3 DEF gralloc_unregister_buffer
    <3>2. LostMaps' \subseteq LostMaps \cup {Place(h)}
      BY <2>1, <3>1 DEF LostMaps
    <3>3. \E m : LostMaps' \subseteq LostMaps \cup {m}
      BY <3>2
    <3> QED BY <3>1, <3>3, LostCounted
  <2> QED BY <2>2, <2>3
<1>6. ASSUME NEW h \in Handles, NEW mode \in {"read", "write"}, gralloc_lock(h, mode)
      PROVE  LostInv'
  <2>1. LostMaps' = LostMaps
    BY <1>6 DEF gralloc_lock, LostMaps
  <2> QED BY <1>6, <2>1, LostCounted DEF gralloc_lock
<1>7. ASSUME NEW h \in Handles, gralloc_unlock(h) PROVE LostInv'
  <2>1. LostMaps' = LostMaps
    BY <1>7 DEF gralloc_unlock, LostMaps
  <2> QED BY <1>7, <2>1, LostCounted DEF gralloc_unlock
<1>8. ASSUME NEW h \in Handles, gralloc_free(h) PROVE LostInv'
  <2>1. CASE UNCHANGED <<handleVars, maps>>
    <3>1. LostMaps' = LostMaps
      BY <1>8, <2>1 DEF gralloc_free, handleVars, LostMaps
    <3> QED BY <1>8, <3>1, LostCounted DEF gralloc_free
  <2>2. CASE ~UNCHANGED <<handleVars, maps>>
    <3>1. UNCHANGED <<usage, faults>> /\ maps' = maps \ {Place(h)}
      BY <1>8, <2>2 DEF gralloc_free
    <3>2. \A x \in Handles \ {h} : Usable(x) /\ Mapped(x) =>
            Usable(x)' /\ Mapped(x)' /\ Place(x)' = Place(x)
      BY <1>8, <2>2 DEF gralloc_free, DropHandle, NewHandle
    <3>3. LostMaps' \subseteq LostMaps
      BY <3>1, <3>2 DEF LostMaps
    <3> QED BY <3>1, <3>3, LostCounted
  <2> QED BY <2>1, <2>2
<1>9. CASE UNCHANGED vars
  <2>1. LostMaps' = LostMaps
    BY <1>9 DEF vars, handleVars, LostMaps
  <2> QED BY <1>9, <2>1, LostCounted DEF vars
<1> QED
  BY <1>1, <1>2, <1>3, <1>4, <1>5, <1>6, <1>7, <1>8, <1>9 DEF Next

\* A process never loses more mappings than there were failures, however often
\* buffers are copied between processes, registered and freed.
THEOREM MapsBounded == Spec => []MappingsBounded
<1>1. Init => LostInv
  <2> SUFFICES ASSUME Init PROVE LostInv
    OBVIOUS
  <2>1. LostMaps = {} BY DEF Init, LostMaps
  <2> QED BY <2>1, FS_EmptySet DEF Init, LostInv
<1>2. TypeInv /\ LostInv => MappingsBounded
  <2> SUFFICES ASSUME TypeInv, LostInv PROVE MappingsBounded
    OBVIOUS
  <2> DEFINE L == {m \in maps : ~\E h \in Handles :
                                  /\ kind[h] # "none"
                                  /\ <<owner[h], base[h], buf[h]>> = m}
  <2>1. L \subseteq LostMaps
    BY DEF LostMaps, Mapped, Place
  <2>2. /\ Cardinality(L) <= Cardinality(LostMaps) /\ Cardinality(L) \in Nat
        /\ Cardinality(LostMaps) \in Nat /\ faults \in Nat
    BY <2>1, FS_Subset, FS_CardinalityType DEF LostInv, TypeInv, TypeOK
  <2>3. Cardinality(L) <= faults
    BY <2>2 DEF LostInv
  <2> QED BY <2>3 DEF MappingsBounded
<1> QED
  BY <1>1, <1>2, LostStep, TypeInvariant, PTL DEF Spec
=============================================================================
