------------------------ MODULE StreamRuntime_proofs ------------------------
(***************************************************************************)
(* For any number of threads and addresses, the runtime's list of          *)
(* instances is exact.                                                     *)
(***************************************************************************)
EXTENDS StreamRuntime, TLAPS

\* An address has one owner: the application, or one call.
OneOwner ==
  /\ \A t \in Threads : todo[t] # <<>> => impl[t] \notin handles
  /\ \A t, u \in Threads : todo[t] # <<>> /\ todo[u] # <<>> /\ impl[t] = impl[u] => t = u

Inv == TypeOK /\ OneOwner /\ RegistryExact

Calls == {<<>>, CreateSteps, DestroySteps, <<"return">>, <<"delete">>}

\* What the five states of a call are, without the sequences.
LEMMA Shapes ==
  /\ CreateSteps # <<>> /\ Head(CreateSteps) = "push" /\ Tail(CreateSteps) = <<"return">>
  /\ DestroySteps # <<>> /\ Head(DestroySteps) = "erase" /\ Tail(DestroySteps) = <<"delete">>
  /\ <<"return">> # <<>> /\ Head(<<"return">>) = "return" /\ Tail(<<"return">>) = <<>>
  /\ <<"delete">> # <<>> /\ Head(<<"delete">>) = "delete" /\ Tail(<<"delete">>) = <<>>
  BY DEF CreateSteps, DestroySteps

\* Where a call goes from each step.
LEMMA Successor ==
  ASSUME NEW s \in Calls, s # <<>>
  PROVE  /\ Head(s) = "push" => Tail(s) = <<"return">>
         /\ Head(s) = "erase" => Tail(s) = <<"delete">>
         /\ Head(s) \in {"return", "delete"} => Tail(s) = <<>>
         /\ Head(s) \in {"push", "erase", "return", "delete"}
         /\ Tail(s) \in Calls
  BY Shapes DEF Calls

LEMMA InListed ==
  ASSUME NEW a
  PROVE  a \in Listed <=>
           \/ a \in handles
           \/ \E u \in Threads : (InStep(u, "return") \/ InStep(u, "erase")) /\ impl[u] = a
  BY DEF Listed

LEMMA Starts == Init => Inv
<1> SUFFICES ASSUME Init PROVE Inv
  OBVIOUS
<1>1. Listed = {}
  BY DEF Init, Listed, InStep
<1> QED
  BY <1>1 DEF Init, Inv, TypeOK, OneOwner, RegistryExact

\* The first step of either call: a changes from the heap's, or the application's,
\* to the call's, and is listed after it if it was before.
LEMMA CallsBegin ==
  ASSUME Inv, NEW t \in Threads, xrCreateInstance(t) \/ xrDestroyInstance(t)
  PROVE  Inv'
<1> USE DEF Inv
<1>1. PICK a \in Addresses, steps \in {CreateSteps, DestroySteps} :
        /\ Begins(t, a, steps) /\ g_instances' = g_instances
        /\ \/ /\ a \notin heap /\ steps = CreateSteps
              /\ heap' = heap \cup {a} /\ handles' = handles
           \/ /\ a \in handles /\ steps = DestroySteps
              /\ heap' = heap /\ handles' = handles \ {a}
  BY DEF xrCreateInstance, xrDestroyInstance, TypeOK
<1>2. /\ todo[t] = <<>> /\ todo'[t] = steps /\ impl'[t] = a
      /\ \A u \in Threads : u # t => todo'[u] = todo[u] /\ impl'[u] = impl[u]
      /\ todo' \in [Threads -> Calls] /\ impl' \in [Threads -> Addresses]
  BY <1>1 DEF Begins, TypeOK, Calls
<1>3. \A u \in Threads : u # t /\ todo[u] # <<>> => impl[u] # a
  BY <1>1 DEF TypeOK, OneOwner
<1>4. TypeOK'
  BY <1>1, <1>2, <1>3 DEF TypeOK, Calls
<1>5. OneOwner'
  BY <1>1, <1>2, <1>3 DEF TypeOK, OneOwner
<1>6. \A b \in Addresses : b \in Listed' <=> b \in Listed
  <2>1. ~InStep(t, "return") /\ ~InStep(t, "erase") /\ ~InStep(t, "return")'
    BY <1>2, Shapes DEF InStep
  <2>2. InStep(t, "erase")' <=> steps = DestroySteps
    BY <1>2, Shapes DEF InStep
  <2>3. \A u \in Threads : u # t =>
          /\ InStep(u, "return")' <=> InStep(u, "return")
          /\ InStep(u, "erase")' <=> InStep(u, "erase")
    BY <1>2 DEF InStep
  <2>4. CASE steps = CreateSteps
    <3>1. steps # DestroySteps /\ handles' = handles
      BY <2>4, <1>1, Shapes
    <3> QED
      BY <3>1, <2>1, <2>2, <2>3, <1>2 DEF Listed
  <2>5. CASE steps = DestroySteps
    <3>1. a \in handles /\ handles' = handles \ {a}
      BY <2>5, <1>1, Shapes
    <3> QED
      BY <3>1, <2>1, <2>2, <2>3, <2>5, <1>2 DEF Listed
  <2> QED
    BY <2>4, <2>5
<1> QED
  BY <1>1, <1>4, <1>5, <1>6 DEF RegistryExact

\* Any later step: the call owns its address, so no one else's entry can be touched.
LEMMA CallsContinue ==
  ASSUME Inv, NEW t \in Threads, PushBack(t) \/ Return(t) \/ Erase(t) \/ Delete(t)
  PROVE  Inv'
<1> USE DEF Inv
<1> DEFINE a == impl[t]
<1>1. /\ todo[t] # <<>> /\ impl' = impl
      /\ todo' = [todo EXCEPT ![t] = Tail(todo[t])]
      /\ Head(todo[t]) \in {"push", "return", "erase", "delete"}
  BY DEF PushBack, Return, Erase, Delete, Continues
<1>2. todo[t] \in Calls /\ todo \in [Threads -> Calls]
  BY DEF TypeOK, Calls
<1>3. /\ todo'[t] = Tail(todo[t]) /\ todo' \in [Threads -> Calls]
      /\ \A u \in Threads : u # t => todo'[u] = todo[u]
  BY <1>1, <1>2, Successor
<1>4. /\ a \in Addresses /\ a \in heap /\ a \notin handles
      /\ \A u \in Threads : u # t /\ todo[u] # <<>> => impl[u] # a
  BY <1>1 DEF TypeOK, OneOwner
<1>5. \A u \in Threads : u # t =>
        /\ InStep(u, "return")' <=> InStep(u, "return")
        /\ InStep(u, "erase")' <=> InStep(u, "erase")
  BY <1>3 DEF InStep
<1>6. \A u \in Threads : InStep(u, "return") \/ InStep(u, "erase") => todo[u] # <<>>
  BY DEF InStep
<1>7. CASE PushBack(t)
  <2>1. /\ Head(todo[t]) = "push" /\ g_instances' = [g_instances EXCEPT ![a] = @ + 1]
        /\ heap' = heap /\ handles' = handles
    BY <1>7 DEF PushBack, Continues
  <2>2. todo'[t] = <<"return">>
    BY <2>1, <1>1, <1>2, <1>3, Successor
  <2>3. a \notin Listed
    BY <1>4, <1>6, <2>1, InListed DEF InStep
  <2>4. a \in Listed' /\ \A b \in Addresses : b # a => (b \in Listed' <=> b \in Listed)
    <3>1. InStep(t, "return")' /\ ~InStep(t, "erase") /\ ~InStep(t, "return")
      BY <2>1, <2>2, Shapes DEF InStep
    <3> QED
      BY <3>1, <2>1, <1>1, <1>5 DEF Listed
  <2>5. TypeOK'
    BY <2>1, <1>1, <1>3, <1>4 DEF TypeOK, Calls
  <2>6. OneOwner'
    BY <2>1, <1>1, <1>3, <1>4 DEF OneOwner
  <2> QED
    BY <2>1, <2>3, <2>4, <2>5, <2>6, <1>4 DEF RegistryExact, TypeOK
<1>8. CASE Return(t)
  <2>1. /\ Head(todo[t]) = "return" /\ handles' = handles \cup {a}
        /\ heap' = heap /\ g_instances' = g_instances
    BY <1>8 DEF Return, Continues
  <2>2. todo'[t] = <<>>
    BY <2>1, <1>1, <1>2, <1>3, Successor
  <2>3. \A b \in Addresses : b \in Listed' <=> b \in Listed
    <3>1. ~InStep(t, "return")' /\ ~InStep(t, "erase")' /\ InStep(t, "return")
      BY <2>1, <2>2, <1>1 DEF InStep
    <3> QED
      BY <3>1, <2>1, <1>1, <1>5 DEF Listed
  <2>4. TypeOK'
    BY <2>1, <2>2, <1>1, <1>3, <1>4 DEF TypeOK, Calls
  <2>5. OneOwner'
    BY <2>1, <2>2, <1>1, <1>3, <1>4 DEF OneOwner
  <2> QED
    BY <2>1, <2>3, <2>4, <2>5 DEF RegistryExact
<1>9. CASE Erase(t)
  <2>1. /\ Head(todo[t]) = "erase" /\ g_instances' = [g_instances EXCEPT ![a] = 0]
        /\ heap' = heap /\ handles' = handles
    BY <1>9 DEF Erase, Continues
  <2>2. todo'[t] = <<"delete">>
    BY <2>1, <1>1, <1>2, <1>3, Successor
  <2>3. ~InStep(t, "return")' /\ ~InStep(t, "erase")'
    BY <2>2, Shapes DEF InStep
  <2>4. a \notin Listed' /\ \A b \in Addresses : b # a => (b \in Listed' <=> b \in Listed)
    <3>1. \A u \in Threads : u # t /\ (InStep(u, "return")' \/ InStep(u, "erase")') => impl[u] # a
      BY <1>4, <1>5, <1>6
    <3> QED
      BY <3>1, <2>1, <2>3, <1>1, <1>4, <1>5 DEF Listed
  <2>5. TypeOK'
    BY <2>1, <1>1, <1>3, <1>4 DEF TypeOK, Calls
  <2>6. OneOwner'
    BY <2>1, <1>1, <1>3, <1>4 DEF OneOwner
  <2> QED
    BY <2>1, <2>4, <2>5, <2>6, <1>4 DEF RegistryExact, TypeOK
<1>10. CASE Delete(t)
  <2>1. /\ Head(todo[t]) = "delete" /\ heap' = heap \ {a}
        /\ handles' = handles /\ g_instances' = g_instances
    BY <1>10 DEF Delete, Continues
  <2>2. todo'[t] = <<>>
    BY <2>1, <1>1, <1>2, <1>3, Successor
  <2>3. \A b \in Addresses : b \in Listed' <=> b \in Listed
    <3>1. ~InStep(t, "return")' /\ ~InStep(t, "erase")'
          /\ ~InStep(t, "return") /\ ~InStep(t, "erase")
      BY <2>1, <2>2 DEF InStep
    <3> QED
      BY <3>1, <2>1, <1>1, <1>5 DEF Listed
  <2>4. TypeOK'
    BY <2>1, <2>2, <1>1, <1>3, <1>4 DEF TypeOK, Calls
  <2>5. OneOwner'
    BY <2>1, <2>2, <1>1, <1>3, <1>4 DEF OneOwner
  <2> QED
    BY <2>1, <2>3, <2>4, <2>5 DEF RegistryExact
<1> QED
  BY <1>7, <1>8, <1>9, <1>10

THEOREM Invariance == Spec => []Inv
<1>1. Inv /\ [Next]_vars => Inv'
  <2> SUFFICES ASSUME Inv, [Next]_vars PROVE Inv'
    OBVIOUS
  <2>1. CASE Next
    BY <2>1, CallsBegin, CallsContinue DEF Next
  <2>2. CASE UNCHANGED vars
    BY <2>2 DEF vars, Inv, TypeOK, OneOwner, RegistryExact, Listed, InStep
  <2> QED
    BY <2>1, <2>2
<1> QED
  BY Starts, <1>1, PTL DEF Spec

\* No handle or call ever refers to an instance that is gone.
THEOREM TypeCorrect == Spec => []TypeOK
BY Invariance, PTL DEF Inv

\* The list is exact for any number of threads, although a freed address may be
\* given to another thread's instance at once.
THEOREM RegistryIsExact == Spec => []RegistryExact
BY Invariance, PTL DEF Inv
=============================================================================
