--------------------------- MODULE StreamRuntime ---------------------------
(***************************************************************************)
(* The instances of the OpenXR runtime                                     *)
(* (src/streamruntime/streamruntime.cpp:58-72, 115-152): threads of an     *)
(* application create and destroy them at once, a handle is the address of *)
(* an InstanceImpl, and the heap hands freed addresses out again.  The     *)
(* list of instances is locked for each change to it, the heap and the     *)
(* list together are not.  The application destroys a handle it holds,     *)
(* and once, as OpenXR requires; nothing else in the runtime keeps state.  *)
(***************************************************************************)
EXTENDS Integers, Sequences

CONSTANTS Threads,   \* threads of the application
          Addresses  \* where the heap can put an instance

VARIABLES heap,        \* addresses of the InstanceImpls that exist
          g_instances, \* how often the vector lists an address: its order is not read
          handles,     \* the handles that the application holds
          todo,        \* what is left of the call a thread is in
          impl         \* the instance that call, or the last one, is about

vars == <<heap, g_instances, handles, todo, impl>>

Init ==
  /\ heap = {} /\ handles = {}
  /\ g_instances = [a \in Addresses |-> 0]
  /\ todo = [t \in Threads |-> <<>>] /\ impl \in [Threads -> Addresses]

\* After `new`, and up to `delete`.
\* Slips: the handle is given out before it is listed, or freed while it is listed.
CreateSteps_Early == <<"return", "push">>
CreateSteps == <<"push", "return">>

DestroySteps_DeleteFirst == <<"delete", "erase">>
DestroySteps == <<"erase", "delete">>

Begins(t, a, steps) ==
  /\ todo[t] = <<>>
  /\ todo' = [todo EXCEPT ![t] = steps]
  /\ impl' = [impl EXCEPT ![t] = a]

xrCreateInstance(t) ==
  /\ \E a \in Addresses \ heap :
       Begins(t, a, CreateSteps) /\ heap' = heap \cup {a}
  /\ UNCHANGED <<g_instances, handles>>

xrDestroyInstance(t) ==
  /\ \E a \in handles :
       Begins(t, a, DestroySteps) /\ handles' = handles \ {a}
  /\ UNCHANGED <<heap, g_instances>>

Continues(t, step) ==
  /\ todo[t] # <<>> /\ Head(todo[t]) = step
  /\ todo' = [todo EXCEPT ![t] = Tail(@)]
  /\ UNCHANGED impl

PushBack(t) ==
  /\ Continues(t, "push")
  /\ g_instances' = [g_instances EXCEPT ![impl[t]] = @ + 1]
  /\ UNCHANGED <<heap, handles>>

Return(t) ==
  /\ Continues(t, "return")
  /\ handles' = handles \cup {impl[t]}
  /\ UNCHANGED <<heap, g_instances>>

\* std::remove takes every entry with that address.
Erase(t) ==
  /\ Continues(t, "erase")
  /\ g_instances' = [g_instances EXCEPT ![impl[t]] = 0]
  /\ UNCHANGED <<heap, handles>>

Delete(t) ==
  /\ Continues(t, "delete")
  /\ heap' = heap \ {impl[t]}
  /\ UNCHANGED <<g_instances, handles>>

Next == \E t \in Threads :
          \/ xrCreateInstance(t) \/ PushBack(t) \/ Return(t)
          \/ xrDestroyInstance(t) \/ Erase(t) \/ Delete(t)

Spec == Init /\ [][Next]_vars
-----------------------------------------------------------------------------
\* Types; whatever an application or a call holds is still allocated.
TypeOK ==
  /\ heap \subseteq Addresses /\ handles \subseteq heap
  /\ g_instances \in [Addresses -> Nat]
  /\ todo \in [Threads -> {<<>>, CreateSteps, DestroySteps, <<"return">>, <<"delete">>}]
  /\ impl \in [Threads -> Addresses]
  /\ \A t \in Threads : todo[t] # <<>> => impl[t] \in heap

InStep(t, step) == todo[t] # <<>> /\ Head(todo[t]) = step

\* The instances that are to be in the list: those the application holds, and those
\* of a call between the list and the handle.
Listed == handles \cup {impl[t] : t \in {u \in Threads : InStep(u, "return") \/ InStep(u, "erase")}}

\* Although lock and heap are used apart and addresses come back, the list holds
\* exactly the live instances, each once: no destroyed one, none that a destroy
\* of the same address's previous owner took with it.
RegistryExact ==
  \A a \in Addresses : g_instances[a] = IF a \in Listed THEN 1 ELSE 0
=============================================================================
