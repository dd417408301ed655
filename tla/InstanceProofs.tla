---------------------------- MODULE InstanceProofs ----------------------------
(***************************************************************************)
(* Proofs about InstanceCreation for any number of wrappers, addresses,    *)
(* sinks, messages and calls of createInstance(), and for any lists of     *)
(* names.                                                                  *)
(***************************************************************************)
EXTENDS InstanceCreation, FiniteSetTheorems, WellFoundedInduction, TLAPS

-----------------------------------------------------------------------------
(* The inductive invariant                                                 *)

\* The members of an Impl, or the locals of createInstance().
Members == [context : Nat, callback : Addresses \cup {NoAddress}, instance : Nat, messenger : Nat]

Creations == [doing : {"create"}, wrapper : Instances, sink : Sinks \cup {NoSink}, own : Members,
              at : {"callback", "instance", "native", "messenger", "impl"}]
Ends == [doing : {"destroy"}, own : Members]

TypesInv ==
    /\ held \in [Instances -> Members]
    /\ work \in {Idle} \cup Creations \cup Ends
    /\ sinkOf \in [Addresses -> Sinks \cup {NoSink, NoAddress}]
    /\ vulkan \in Seq({vulkan[n] : n \in DOMAIN vulkan})

\* All that is made belongs to a wrapper or to the call under way.
Owners == {held[i] : i \in {i \in Instances : held[i] # Nothing}}
            \cup (IF work = Idle THEN {} ELSE {work.own})

\* What o owns is there, numbered by its context, and stands on its callback state.
Backed(o) ==
    LET n == o.context
    IN  /\ n \in contexts /\ n \in DOMAIN vulkan
        /\ o.instance \in {0, n} /\ o.messenger \in {0, n}
        /\ o.instance # 0 <=> vulkan[n].phase \in {"alive", "destroying"}
        /\ o.messenger # 0 <=> Exists(n) /\ vulkan[n].messenger
        /\ o.messenger # 0 => o.instance # 0
        /\ o.callback # NoAddress => sinkOf[o.callback] # NoAddress
        /\ Exists(n) => /\ o.callback # NoAddress /\ vulkan[n].userData = o.callback
                        /\ vulkan[n].sink = sinkOf[o.callback]

Apart(o, p) == o.context # p.context /\ (o.callback # p.callback \/ o.callback = NoAddress)

OwnersInv ==
    /\ \A o \in Owners : Backed(o)
    /\ \A o, p \in Owners : o # p => Apart(o, p)
    /\ \A i, j \in Instances : i # j => held[i] = Nothing \/ held[i] # held[j]
    /\ work # Idle => \A i \in Instances : held[i] # work.own
    /\ \A n \in contexts : \E o \in Owners : o.context = n
    /\ \A a \in Addresses : sinkOf[a] # NoAddress => \E o \in Owners : o.callback = a

\* A native instance has an owner, and all is there that it was made with.
Described(n) ==
    Exists(n) =>
        /\ n \in contexts
        /\ {"phase", "version", "extensions", "layers", "messenger", "userData", "sink"}
                \subseteq DOMAIN vulkan[n]

NativeInv == \A n \in DOMAIN vulkan : Described(n)

\* How far the call under way has come, and what the others left.
Progress ==
    /\ \A i \in Instances : held[i] # Nothing => held[i].instance # 0
    /\ work.doing = "destroy" /\ work.own.instance = 0 => ~Exists(Number)
    /\ work.doing = "create" =>
        LET n == Number
        IN  /\ plan # NoPlan /\ held[work.wrapper] = Nothing
            /\ work.at = "callback" => work.own.callback = NoAddress
            /\ work.at # "callback" =>
                work.own.callback # NoAddress /\ sinkOf[work.own.callback] = work.sink
            /\ work.at \in {"callback", "instance"} => ~Exists(n)
            /\ work.at = "native" => vulkan[n].phase = "creating" /\ work.own.messenger = 0
            /\ work.at \in {"messenger", "impl"} => vulkan[n].phase = "alive"
            /\ work.at = "messenger" => work.own.messenger = 0

Inv == TypesInv /\ OwnersInv /\ NativeInv /\ Progress

-----------------------------------------------------------------------------
(* What the invariant says                                                 *)

LEMMA OwnersAreMembers ==
    ASSUME TypesInv, OwnersInv, NEW o \in Owners
    PROVE  o \in Members /\ o # Nothing /\ o.context \in DOMAIN vulkan /\ o.context # 0
<1>1. o \in Members
  BY DEF TypesInv, Owners, Creations, Ends
<1>2. o.context \in DOMAIN vulkan /\ o.context # 0
  BY DEF TypesInv, OwnersInv, Backed
<1> QED BY <1>1, <1>2 DEF Nothing

LEMMA CallbackStatesLive == Inv => UserDataIsLive
<1> SUFFICES ASSUME Inv, NEW n \in DOMAIN vulkan, Exists(n)
             PROVE  sinkOf[vulkan[n].userData] = vulkan[n].sink
  BY DEF UserDataIsLive, MayCallBack
<1>1. n \in contexts
  BY DEF Inv, NativeInv, Described
<1>2. PICK o \in Owners : o.context = n
  BY <1>1 DEF Inv, OwnersInv
<1> QED BY <1>2 DEF Inv, OwnersInv, Backed

LEMMA EverythingOwned == Inv => InstancesAreOwned
<1> SUFFICES ASSUME Inv PROVE InstancesAreOwned
  OBVIOUS
<1> USE DEF Inv
<1> DEFINE owners == {held[i] : i \in Instances} \cup (IF work = Idle THEN {} ELSE {work.own})
           real == owners \ {Nothing}
           Owned(member) == {o[member] : o \in {o \in real : o[member] # Nothing[member]}}
<1>1. real = Owners
  BY OwnersAreMembers DEF Owners
<1>2. \A o, p \in real : o # p =>
        o.context # p.context /\ (o.callback # p.callback \/ o.callback = NoAddress)
  BY <1>1 DEF OwnersInv, Apart
<1>3. \A o \in Owners : o \in Members /\ o.context # 0 /\ Backed(o)
  BY OwnersAreMembers DEF OwnersInv
<1>4. contexts = Owned("context")
  BY <1>1, <1>3 DEF OwnersInv, Backed, Nothing
<1>5. {a \in Addresses : sinkOf[a] # NoAddress} = Owned("callback")
  <2>1. Owned("callback") = {o.callback : o \in {o \in Owners : o.callback # NoAddress}}
    BY <1>1 DEF Nothing
  <2>2. ASSUME NEW a \in Addresses, sinkOf[a] # NoAddress PROVE a \in Owned("callback")
    <3>1. PICK o \in Owners : o.callback = a
      BY <2>2 DEF OwnersInv
    <3> QED BY <2>1, <3>1, InstanceAssumption
  <2>3. ASSUME NEW o \in Owners, o.callback # NoAddress
        PROVE  o.callback \in Addresses /\ sinkOf[o.callback] # NoAddress
    BY <1>3, <2>3 DEF Members, Backed
  <2> HIDE DEF real, Owned
  <2> QED BY <2>1, <2>2, <2>3
<1>6. ASSUME NEW n \in DOMAIN vulkan, Exists(n)
      PROVE  \E o \in Owners : o.context = n
  BY <1>6 DEF NativeInv, Described, OwnersInv
<1>7. {n \in DOMAIN vulkan : vulkan[n].phase \in {"alive", "destroying"}} = Owned("instance")
  BY <1>1, <1>3, <1>6 DEF Backed, Nothing, Exists
<1>8. {n \in DOMAIN vulkan : Exists(n) /\ vulkan[n].messenger} = Owned("messenger")
  BY <1>1, <1>3, <1>6 DEF Backed, Nothing
<1>9. Owned("messenger") \subseteq Owned("instance") /\ Owned("instance") \subseteq contexts
  BY <1>1, <1>3 DEF Backed, Nothing
<1>10. \A i, j \in Instances : i # j => held[i] = Nothing \/ held[i] # held[j]
  BY DEF OwnersInv
<1> QED BY <1>2, <1>4, <1>5, <1>7, <1>8, <1>9, <1>10 DEF InstancesAreOwned

-----------------------------------------------------------------------------
(* Steps                                                                   *)

LEMMA InstanceStarts == Init => Inv
<1> SUFFICES ASSUME Init PROVE Inv
  OBVIOUS
<1>1. TypesInv
  BY DEF Init, TypesInv, Members, Nothing
<1>2. Owners = {}
  BY DEF Init, Owners
<1>3. OwnersInv
  BY <1>2, InstanceAssumption DEF Init, OwnersInv
<1>4. NativeInv /\ Progress
  BY DEF Init, NativeInv, Progress, Idle
<1> QED BY <1>1, <1>3, <1>4 DEF Inv

(* Whoever owns things now, they are the same things.                       *)
LEMMA HandedOver ==
    ASSUME OwnersInv, NativeInv, Owners' = Owners, UNCHANGED nativeVars,
           \A i, j \in Instances : i # j => held'[i] = Nothing \/ held'[i] # held'[j],
           work' # Idle => \A i \in Instances : held'[i] # work'.own
    PROVE  OwnersInv' /\ NativeInv'
<1>1. \A o : Backed(o)' <=> Backed(o)
  BY DEF Backed, Exists, nativeVars
<1>2. OwnersInv'
  BY <1>1 DEF OwnersInv, Apart, nativeVars
<1>3. NativeInv'
  BY DEF NativeInv, Described, Exists, nativeVars
<1> QED BY <1>2, <1>3

(* A step of the call under way changes what that call owns, and the call    *)
(* owns it afterwards.                                                      *)
LEMMA WorkChanges ==
    ASSUME TypesInv, OwnersInv, NativeInv, work # Idle, work' # Idle, UNCHANGED <<held, contexts>>,
           NEW old, old = work.own, NEW new, new = work'.own, new \in Members,
           new.context = old.context, DOMAIN vulkan' = DOMAIN vulkan,
           \A n \in DOMAIN vulkan : n # old.context => vulkan'[n] = vulkan[n],
           \A a \in Addresses : sinkOf'[a] # sinkOf[a] =>
             \/ a = new.callback /\ sinkOf[a] = NoAddress
             \/ a = old.callback /\ sinkOf'[a] = NoAddress,
           new.callback # old.callback =>
             /\ new.callback # NoAddress => sinkOf[new.callback] = NoAddress
             /\ old.callback # NoAddress => sinkOf'[old.callback] = NoAddress,
           Backed(new)', Described(old.context)'
    PROVE  OwnersInv' /\ NativeInv'
<1> DEFINE others == {held[i] : i \in {i \in Instances : held[i] # Nothing}}
<1>1. Owners = others \cup {old} /\ Owners' = others \cup {new}
  BY DEF Owners
<1>2. \A o \in Owners : o \in Members /\ o # Nothing /\ Backed(o)
  BY OwnersAreMembers DEF OwnersInv
<1>3. old \notin others
  BY DEF OwnersInv
<1>4. ASSUME NEW o \in others
      PROVE  /\ o.context # old.context /\ Backed(o)'
             /\ o.callback # NoAddress => o.callback # new.callback /\ o.callback # old.callback
  <2>1. /\ o \in Members /\ Backed(o) /\ o.context # old.context
        /\ o.callback # old.callback \/ o.callback = NoAddress
    BY <1>1, <1>2, <1>3, <1>4 DEF OwnersInv, Apart
  <2>2. o.callback # NoAddress => /\ o.callback \in Addresses /\ sinkOf[o.callback] # NoAddress
                                  /\ o.callback # new.callback
                                  /\ sinkOf'[o.callback] = sinkOf[o.callback]
    BY <2>1 DEF Members, Backed
  <2>3. vulkan'[o.context] = vulkan[o.context]
    BY <2>1 DEF Backed
  <2> QED BY <2>1, <2>2, <2>3 DEF Backed, Exists
<1>5. \A o \in Owners' : Backed(o)'
  BY <1>1, <1>4
<1>6. \A o, p \in Owners' : o # p => Apart(o, p)'
  BY <1>1, <1>4, <1>3 DEF OwnersInv, Apart
<1>7. \A n \in contexts' : \E o \in Owners' : o.context = n
  BY <1>1 DEF OwnersInv
<1>8. ASSUME NEW a \in Addresses, sinkOf'[a] # NoAddress
      PROVE  \E o \in Owners' : o.callback = a
  <2>1. CASE a = new.callback
    BY <1>1, <2>1
  <2>2. CASE a # new.callback
    <3>1. sinkOf'[a] = sinkOf[a]
      BY <1>8, <2>2
    <3>2. PICK o \in Owners : o.callback = a
      BY <1>8, <3>1 DEF OwnersInv
    <3>3. o # old
      BY <1>8, <2>2, <3>2, InstanceAssumption
    <3> QED BY <1>1, <3>2, <3>3
  <2> QED BY <2>1, <2>2
<1>9. \A i \in Instances : held'[i] # work'.own
  <2>1. \A i \in Instances : held[i] # Nothing => held[i].context # new.context
    BY <1>4
  <2>2. new # Nothing
    BY <1>1, <1>2, OwnersAreMembers DEF Nothing
  <2> QED BY <2>1, <2>2
<1>10. OwnersInv'
  <2>1. \A i, j \in Instances : i # j => held'[i] = Nothing \/ held'[i] # held'[j]
    BY DEF OwnersInv
  <2> QED BY <1>5, <1>6, <1>7, <1>8, <1>9, <2>1 DEF OwnersInv
<1>11. NativeInv'
  BY DEF NativeInv, Described, Exists
<1> QED BY <1>10, <1>11

LEMMA CreateStep ==
    ASSUME Inv, NEW i \in Instances, NEW sink \in Sinks \cup {NoSink}, Create(i, sink)
    PROVE  Inv'
<1> USE DEF Inv
<1>1. PICK n : n = Len(vulkan) + 1
  OBVIOUS
<1>2. PICK own : own = [Nothing EXCEPT !.context = n]
  OBVIOUS
<1>3. /\ work = Idle /\ held' = held /\ plan' = plan /\ plan # NoPlan /\ sinkOf' = sinkOf
      /\ contexts' = contexts \cup {n} /\ held[i] = Nothing
      /\ work' = [doing |-> "create", at |-> "callback", wrapper |-> i, sink |-> sink, own |-> own]
      /\ vulkan' = Append(vulkan, [phase |-> "none"])
  BY <1>1, <1>2 DEF Create
<1>4. /\ n \in Nat /\ n # 0 /\ n \notin DOMAIN vulkan
      /\ DOMAIN vulkan' = DOMAIN vulkan \cup {n}
      /\ \A m \in DOMAIN vulkan : vulkan'[m] = vulkan[m]
      /\ vulkan'[n] = [phase |-> "none"]
      /\ vulkan' \in Seq({vulkan'[m] : m \in DOMAIN vulkan'})
  <2> DEFINE S == {vulkan[m] : m \in DOMAIN vulkan} \cup {[phase |-> "none"]}
  <2>1. vulkan \in Seq(S)
    BY DEF TypesInv
  <2>2. vulkan' \in Seq(S) /\ Len(vulkan') = n /\ Len(vulkan) \in Nat
    BY <1>1, <1>3, <2>1
  <2>3. /\ DOMAIN vulkan = 1..Len(vulkan) /\ DOMAIN vulkan' = 1..n
        /\ \A m \in DOMAIN vulkan : vulkan'[m] = vulkan[m]
        /\ vulkan'[n] = [phase |-> "none"]
    BY <1>1, <1>3, <2>1, <2>2
  <2>4. vulkan' \in Seq({vulkan'[m] : m \in DOMAIN vulkan'})
    BY <2>2, <2>3
  <2> QED BY <1>1, <2>2, <2>3, <2>4
<1>5. /\ own \in Members /\ own.context = n /\ own.callback = NoAddress
      /\ own.instance = 0 /\ own.messenger = 0 /\ own # Nothing
  BY <1>2, <1>4 DEF Nothing, Members
<1>6. work' \in Creations /\ work'.own = own /\ work' # Idle
  BY <1>3, <1>5 DEF Creations, Idle
<1>7. TypesInv'
  BY <1>3, <1>4, <1>6 DEF TypesInv
<1>8. Owners' = Owners \cup {own}
  BY <1>3, <1>6 DEF Owners
<1>9. \A o \in Owners : o.context # n
  BY <1>4 DEF OwnersInv, Backed
<1>10. Backed(own)'
  BY <1>3, <1>4, <1>5 DEF Backed, Exists
<1>11. ASSUME NEW o \in Owners PROVE Backed(o)'
  BY <1>3, <1>4, <1>9 DEF OwnersInv, Backed, Exists
<1>12. \A o, p \in Owners' : o # p => Apart(o, p)'
  BY <1>5, <1>8, <1>9 DEF OwnersInv, Apart
<1>13. \A j \in Instances : held'[j] # own
  BY <1>3, <1>5, <1>9 DEF Owners
<1>14. OwnersInv'
  BY <1>3, <1>5, <1>6, <1>8, <1>10, <1>11, <1>12, <1>13 DEF OwnersInv
<1>15. NativeInv'
  BY <1>3, <1>4 DEF NativeInv, Described, Exists
<1>16. Progress'
  BY <1>3, <1>4, <1>5 DEF Progress, Exists, Number
<1> QED BY <1>3, <1>7, <1>14, <1>15, <1>16

(* A native instance that a step rewrites keeps the list in its type.        *)
LEMMA Rewritten ==
    ASSUME TypesInv, DOMAIN vulkan' = DOMAIN vulkan, vulkan' = [n \in DOMAIN vulkan' |-> vulkan'[n]]
    PROVE  vulkan' \in Seq({vulkan'[n] : n \in DOMAIN vulkan'})
<1>1. Len(vulkan) \in Nat /\ DOMAIN vulkan' = 1..Len(vulkan)
  BY DEF TypesInv
<1> QED BY <1>1

LEMMA AtWork ==
    ASSUME Inv, work.doing = "create"
    PROVE  /\ work \in Creations /\ work # Idle /\ work.own \in Members
           /\ work.own \in Owners /\ Backed(work.own) /\ Described(Number)
           /\ DOMAIN work = {"doing", "wrapper", "sink", "own", "at"}
           /\ Number \in DOMAIN vulkan /\ Number \in Nat /\ Number # 0
<1>1. work \in Creations /\ work # Idle
  BY DEF Inv, TypesInv, Idle, Ends
<1>2. work.own \in Owners /\ Backed(work.own)
  BY <1>1 DEF Owners, Inv, OwnersInv
<1>3. Number \in DOMAIN vulkan /\ Number \in Nat /\ Number # 0
  BY <1>1, <1>2, OwnersAreMembers DEF Inv, Number, Creations, Members
<1> QED BY <1>1, <1>2, <1>3 DEF Creations, Inv, NativeInv

LEMMA MakeCallbackStateStep ==
    ASSUME Inv, MakeCallbackState
    PROVE  Inv'
<1> USE DEF Inv
<1>1. PICK a \in Addresses : /\ sinkOf[a] = NoAddress
                             /\ sinkOf' = [sinkOf EXCEPT ![a] = work.sink]
                             /\ work' = [work EXCEPT !.at = "instance", !.own.callback = a]
  BY DEF MakeCallbackState
<1>2. /\ work.doing = "create" /\ work.at = "callback"
      /\ UNCHANGED <<held, contexts, vulkan, plan>>
  BY DEF MakeCallbackState, Creating
<1>3. PICK old : old = work.own
  OBVIOUS
<1>4. PICK new : new = [old EXCEPT !.callback = a]
  OBVIOUS
<1>5. /\ work \in Creations /\ work # Idle /\ old \in Members /\ Backed(old)
      /\ old.context \in DOMAIN vulkan /\ Described(old.context)
  BY <1>2, <1>3, AtWork DEF Number
<1>6. /\ work' = [work EXCEPT !.at = "instance", !.own = new] /\ work' \in Creations
      /\ work'.own = new /\ work'.at = "instance" /\ work'.sink = work.sink
      /\ work'.doing = "create" /\ work'.wrapper = work.wrapper /\ work' # Idle
      /\ new \in Members /\ new.callback = a /\ new.context = old.context
      /\ new.instance = old.instance /\ new.messenger = old.messenger
  BY <1>1, <1>3, <1>4, <1>5 DEF Creations, Members, Idle
<1>7. /\ old.callback = NoAddress /\ ~Exists(old.context) /\ plan # NoPlan
      /\ held[work.wrapper] = Nothing
  BY <1>2, <1>3 DEF Progress, Number
<1>8. sinkOf'[a] = work.sink /\ work.sink # NoAddress /\ a # NoAddress
      /\ \A b \in Addresses : b # a => sinkOf'[b] = sinkOf[b]
  BY <1>1, <1>5, InstanceAssumption DEF TypesInv, Creations
<1>9. Backed(new)'
  BY <1>2, <1>5, <1>6, <1>7, <1>8 DEF Backed, Exists
<1>10. Described(old.context)'
  BY <1>2, <1>7 DEF Described, Exists
<1>11. OwnersInv' /\ NativeInv'
  BY <1>1, <1>2, <1>3, <1>5, <1>6, <1>7, <1>8, <1>9, <1>10, WorkChanges
<1>12. TypesInv'
  BY <1>1, <1>2, <1>5, <1>6 DEF TypesInv, Creations
<1>13. Progress'
  BY <1>2, <1>6, <1>7, <1>8 DEF Progress, Number, Exists
<1> QED BY <1>2, <1>11, <1>12, <1>13

(* The calls that change a native instance, and not what it calls back.     *)
LEMMA NativeChanges ==
    ASSUME Inv, work # Idle, UNCHANGED <<held, contexts, plan, sinkOf>>,
           NEW n \in DOMAIN vulkan, n = Number, DOMAIN vulkan' = DOMAIN vulkan,
           \A m \in DOMAIN vulkan : m # n => vulkan'[m] = vulkan[m],
           vulkan' = [m \in DOMAIN vulkan' |-> vulkan'[m]],
           work' \in Creations \cup Ends, work'.own.context = n,
           work'.own.callback = work.own.callback,
           Backed(work.own)', Described(n)', Progress'
    PROVE  Inv'
<1>1. work' # Idle /\ work'.own \in Members
  BY DEF Idle, Creations, Ends
<1>2. TypesInv'
  BY Rewritten DEF Inv, TypesInv
<1>3. PICK old : old = work.own
  OBVIOUS
<1>4. PICK new : new = work'.own
  OBVIOUS
<1>5. OwnersInv' /\ NativeInv'
  <2>1. Backed(new)' /\ Described(old.context)' /\ new.context = old.context
        /\ new.callback = old.callback
    BY <1>3, <1>4 DEF Number, Backed, Exists
  <2> QED BY <1>1, <1>3, <1>4, <2>1, WorkChanges DEF Inv, Number
<1> QED BY <1>2, <1>5 DEF Inv

LEMMA CallNativeStep ==
    ASSUME Inv, CallNative
    PROVE  Inv'
<1> USE DEF Inv
<1>1. PICK n : n = Number
  OBVIOUS
<1>2. PICK x : x = [phase |-> "creating", version |-> plan.version, extensions |-> plan.extensions,
                    layers |-> plan.layers, chained |-> plan.debug_utils_enabled,
                    messenger |-> FALSE, userData |-> work.own.callback, sink |-> work.sink]
  OBVIOUS
<1>3. /\ work.doing = "create" /\ work.at = "instance"
      /\ UNCHANGED <<held, contexts, plan, sinkOf>>
      /\ vulkan' = [vulkan EXCEPT ![n] = x] /\ work' = [work EXCEPT !.at = "native"]
  BY <1>1, <1>2 DEF CallNative, Creating
<1>4. /\ work \in Creations /\ work # Idle /\ n \in DOMAIN vulkan /\ Backed(work.own)
      /\ work.own.context = n /\ n # 0
  BY <1>1, <1>3, AtWork DEF Number
<1>5. /\ x.phase = "creating" /\ ~x.messenger /\ x.userData = work.own.callback
      /\ x.sink = work.sink
      /\ {"phase", "version", "extensions", "layers", "messenger", "userData", "sink"}
            \subseteq DOMAIN x
  BY <1>2
<1>6. /\ work' \in Creations /\ work'.own = work.own /\ work'.at = "native" /\ work'.doing = "create"
      /\ work'.wrapper = work.wrapper
  BY <1>3, <1>4 DEF Creations
<1>7. /\ vulkan'[n] = x /\ \A m \in DOMAIN vulkan : m # n => vulkan'[m] = vulkan[m]
      /\ DOMAIN vulkan' = DOMAIN vulkan /\ vulkan' = [m \in DOMAIN vulkan' |-> vulkan'[m]]
  BY <1>3, <1>4
<1>8. /\ plan # NoPlan /\ work.own.callback # NoAddress /\ sinkOf[work.own.callback] = work.sink
      /\ ~Exists(n) /\ held[work.wrapper] = Nothing
  BY <1>1, <1>3 DEF Progress
<1>9. work.own.messenger = 0 /\ work.own.instance = 0
  BY <1>4, <1>8 DEF Backed, Exists
<1>10. Backed(work.own)'
  BY <1>3, <1>4, <1>5, <1>6, <1>7, <1>8, <1>9 DEF Backed, Exists
<1>11. Described(n)'
  BY <1>3, <1>4, <1>5, <1>7, <1>8 DEF Described, Exists, Backed
<1>12. Progress'
  BY <1>3, <1>4, <1>5, <1>6, <1>7, <1>8, <1>9 DEF Progress, Number, Exists, Creations
<1> QED BY <1>1, <1>3, <1>4, <1>6, <1>7, <1>10, <1>11, <1>12, NativeChanges

LEMMA NativeReturnsStep ==
    ASSUME Inv, NativeReturns
    PROVE  Inv'
<1> USE DEF Inv
<1>1. PICK n : n = Number
  OBVIOUS
<1>2. PICK x : x = [vulkan[n] EXCEPT !.phase = "alive"]
  OBVIOUS
<1>3. PICK new : new = [work.own EXCEPT !.instance = n]
  OBVIOUS
<1>4. /\ work.doing = "create" /\ work.at = "native"
      /\ UNCHANGED <<held, contexts, plan, sinkOf>>
      /\ vulkan' = [vulkan EXCEPT ![n] = x]
      /\ work' = [work EXCEPT !.own = new,
                              !.at = IF plan.debug_utils_enabled THEN "messenger" ELSE "impl"]
  BY <1>1, <1>2, <1>3 DEF NativeReturns, Creating
<1>5. /\ work \in Creations /\ work # Idle /\ n \in DOMAIN vulkan /\ Backed(work.own)
      /\ work.own.context = n /\ n \in Nat /\ n # 0 /\ Described(n)
  BY <1>1, <1>4, AtWork DEF Number
<1>6. /\ vulkan[n].phase = "creating" /\ work.own.messenger = 0 /\ Exists(n)
      /\ plan # NoPlan
      /\ work.own.callback # NoAddress /\ sinkOf[work.own.callback] = work.sink
      /\ held[work.wrapper] = Nothing
  BY <1>1, <1>4 DEF Progress, Exists
<1>7. /\ x.phase = "alive" /\ x.messenger = vulkan[n].messenger /\ x.userData = vulkan[n].userData
      /\ x.sink = vulkan[n].sink /\ DOMAIN x = DOMAIN vulkan[n]
  BY <1>2, <1>5, <1>6 DEF Described
<1>8. /\ new \in Members /\ new.context = n /\ new.callback = work.own.callback
      /\ new.instance = n /\ new.messenger = 0
  BY <1>3, <1>5, <1>6 DEF Members, Creations
<1>9. /\ work' \in Creations /\ work'.own = new /\ work'.sink = work.sink
      /\ work'.wrapper = work.wrapper /\ work'.doing = "create"
      /\ work'.at = IF plan.debug_utils_enabled THEN "messenger" ELSE "impl"
  BY <1>4, <1>5, <1>8 DEF Creations
<1>10. /\ vulkan'[n] = x /\ \A m \in DOMAIN vulkan : m # n => vulkan'[m] = vulkan[m]
       /\ DOMAIN vulkan' = DOMAIN vulkan /\ vulkan' = [m \in DOMAIN vulkan' |-> vulkan'[m]]
  BY <1>4, <1>5
<1>11. Backed(work.own)'
  <2>1. Backed(new)'
    BY <1>4, <1>5, <1>6, <1>7, <1>8, <1>10 DEF Backed, Exists
  <2> QED BY <1>9, <2>1 DEF Backed
<1>12. Described(n)'
  BY <1>4, <1>5, <1>6, <1>7, <1>10 DEF Described, Exists
<1>13. Progress'
  BY <1>4, <1>5, <1>6, <1>7, <1>8, <1>9, <1>10 DEF Progress, Number, Exists
<1> QED BY <1>1, <1>4, <1>5, <1>8, <1>9, <1>10, <1>11, <1>12, <1>13, NativeChanges

LEMMA MakeMessengerStep ==
    ASSUME Inv, MakeMessenger
    PROVE  Inv'
<1> USE DEF Inv
<1>1. PICK n : n = Number
  OBVIOUS
<1>2. PICK x : x = [vulkan[n] EXCEPT !.messenger = TRUE]
  OBVIOUS
<1>3. PICK new : new = [work.own EXCEPT !.messenger = n]
  OBVIOUS
<1>4. /\ work.doing = "create" /\ work.at = "messenger"
      /\ UNCHANGED <<held, contexts, plan, sinkOf>>
      /\ vulkan' = [vulkan EXCEPT ![n] = x]
      /\ work' = [work EXCEPT !.own = new, !.at = "impl"]
  BY <1>1, <1>2, <1>3 DEF MakeMessenger, Creating
<1>5. /\ work \in Creations /\ work # Idle /\ n \in DOMAIN vulkan /\ Backed(work.own)
      /\ work.own.context = n /\ n \in Nat /\ n # 0 /\ Described(n)
  BY <1>1, <1>4, AtWork DEF Number
<1>6. /\ vulkan[n].phase = "alive" /\ Exists(n) /\ plan # NoPlan
      /\ held[work.wrapper] = Nothing
      /\ work.own.callback # NoAddress /\ sinkOf[work.own.callback] = work.sink
      /\ \A i \in Instances : held[i] # Nothing => held[i].instance # 0
  BY <1>1, <1>4 DEF Progress, Exists
<1>7. /\ x.phase = "alive" /\ x.messenger /\ x.userData = vulkan[n].userData
      /\ x.sink = vulkan[n].sink /\ DOMAIN x = DOMAIN vulkan[n]
  BY <1>2, <1>5, <1>6 DEF Described
<1>8. /\ new \in Members /\ new.context = n /\ new.callback = work.own.callback
      /\ new.instance = work.own.instance /\ new.messenger = n
  BY <1>3, <1>5 DEF Members, Creations
<1>9. /\ work' \in Creations /\ work'.own = new /\ work'.sink = work.sink
      /\ work'.wrapper = work.wrapper /\ work'.doing = "create" /\ work'.at = "impl"
  BY <1>4, <1>5, <1>8 DEF Creations
<1>10. /\ vulkan'[n] = x /\ \A m \in DOMAIN vulkan : m # n => vulkan'[m] = vulkan[m]
       /\ DOMAIN vulkan' = DOMAIN vulkan /\ vulkan' = [m \in DOMAIN vulkan' |-> vulkan'[m]]
  BY <1>4, <1>5
<1>11. Backed(work.own)'
  <2>1. Backed(new)'
    BY <1>4, <1>5, <1>6, <1>7, <1>8, <1>10 DEF Backed, Exists
  <2> QED BY <1>9, <2>1 DEF Backed
<1>12. Described(n)'
  BY <1>4, <1>5, <1>6, <1>7, <1>10 DEF Described, Exists
<1>13. Progress'
  BY <1>4, <1>5, <1>6, <1>7, <1>8, <1>9, <1>10 DEF Progress, Number, Exists
<1> QED BY <1>1, <1>4, <1>5, <1>8, <1>9, <1>10, <1>11, <1>12, <1>13, NativeChanges

LEMMA UnwindStep ==
    ASSUME Inv, Unwind
    PROVE  Inv'
<1> USE DEF Inv
<1>1. PICK n : n = Number
  OBVIOUS
<1>2. /\ work.doing = "create" /\ work.at \in {"callback", "native", "messenger", "impl"}
      /\ UNCHANGED <<held, contexts, plan, sinkOf>>
      /\ vulkan' = IF work.at = "native" THEN [vulkan EXCEPT ![n] = [phase |-> "none"]]
                   ELSE vulkan
      /\ work' = [doing |-> "destroy", own |-> work.own]
  BY <1>1 DEF Unwind, Creating, Ending
<1>3. /\ work \in Creations /\ work # Idle /\ n \in DOMAIN vulkan /\ Backed(work.own)
      /\ work.own.context = n /\ n # 0 /\ Described(n)
  BY <1>1, <1>2, AtWork DEF Number
<1>4. work' \in Ends /\ work'.own = work.own /\ work'.doing = "destroy"
  BY <1>2, <1>3 DEF Creations, Ends
<1>5. /\ \A m \in DOMAIN vulkan : m # n => vulkan'[m] = vulkan[m]
      /\ DOMAIN vulkan' = DOMAIN vulkan /\ vulkan' = [m \in DOMAIN vulkan' |-> vulkan'[m]]
  BY <1>2, <1>3 DEF TypesInv
<1>6. /\ \A i \in Instances : held[i] # Nothing => held[i].instance # 0
      /\ work.at = "callback" => ~Exists(n)
      /\ work.at = "native" => vulkan[n].phase = "creating" /\ work.own.messenger = 0
      /\ work.at \in {"messenger", "impl"} => vulkan[n].phase = "alive"
  BY <1>1, <1>2 DEF Progress
<1>7. Backed(work.own)' /\ Described(n)' /\ Progress'
  <2>1. CASE work.at = "native"
    <3>1. vulkan'[n] = [phase |-> "none"] /\ work.own.instance = 0
      BY <1>2, <1>3, <1>6, <2>1 DEF Backed
    <3>2. ~Exists(n)'
      BY <3>1 DEF Exists
    <3>3. Backed(work.own)'
      BY <1>2, <1>3, <1>4, <1>5, <1>6, <2>1, <3>1, <3>2 DEF Backed, Exists
    <3>4. Described(n)'
      BY <3>2 DEF Described, Exists
    <3>5. Progress'
      BY <1>2, <1>3, <1>4, <1>6, <3>2 DEF Progress, Number, Exists
    <3> QED BY <3>3, <3>4, <3>5
  <2>2. CASE work.at # "native"
    <3>1. vulkan' = vulkan
      BY <1>2, <2>2
    <3>2. Backed(work.own)' /\ Described(n)'
      BY <1>2, <1>3, <1>4, <3>1 DEF Backed, Described, Exists
    <3>3. Progress'
      BY <1>2, <1>3, <1>4, <1>6, <2>2, <3>1 DEF Progress, Number, Exists, Backed
    <3> QED BY <3>2, <3>3
  <2> QED BY <2>1, <2>2
<1> QED BY <1>1, <1>2, <1>3, <1>4, <1>5, <1>7, NativeChanges

(* A finished Impl is handed to its wrapper, and displaced ones from it.     *)
LEMMA MakeImplStep ==
    ASSUME Inv, MakeImpl
    PROVE  Inv'
<1> USE DEF Inv
<1>1. PICK own : own = work.own
  OBVIOUS
<1>2. PICK i : i = work.wrapper
  OBVIOUS
<1>3. /\ work.doing = "create" /\ work.at = "impl" /\ UNCHANGED <<plan, nativeVars>>
      /\ held' = [held EXCEPT ![i] = own] /\ work' = Idle
  BY <1>1, <1>2 DEF MakeImpl, Creating
<1>4. /\ work \in Creations /\ work # Idle /\ own \in Members /\ Backed(own) /\ i \in Instances
      /\ own \in Owners /\ own # Nothing
  BY <1>1, <1>2, <1>3, AtWork, OwnersAreMembers DEF Creations
<1>5. held[i] = Nothing /\ own.instance # 0
  BY <1>1, <1>2, <1>3, <1>4 DEF Progress, Number, Backed
<1>6. /\ held' \in [Instances -> Members] /\ held'[i] = own
      /\ \A j \in Instances : j # i => held'[j] = held[j]
  BY <1>3, <1>4 DEF TypesInv
<1>7. TypesInv'
  BY <1>3, <1>6 DEF TypesInv, nativeVars
<1>8. Owners' = Owners
  BY <1>1, <1>3, <1>4, <1>5, <1>6 DEF Owners
<1>9. \A j, k \in Instances : j # k => held'[j] = Nothing \/ held'[j] # held'[k]
  BY <1>1, <1>4, <1>5, <1>6 DEF OwnersInv
<1>10. OwnersInv' /\ NativeInv'
  BY <1>3, <1>8, <1>9, HandedOver
<1>11. Progress'
  BY <1>3, <1>5, <1>6 DEF Progress, Idle
<1> QED BY <1>3, <1>7, <1>10, <1>11

LEMMA MoveInstanceStep ==
    ASSUME Inv, NEW from \in Instances, NEW to \in Instances, MoveInstance(from, to)
    PROVE  Inv'
<1> USE DEF Inv
<1>1. /\ from # to /\ work = Idle /\ UNCHANGED <<plan, nativeVars>>
      /\ held' = [held EXCEPT ![to] = held[from], ![from] = Nothing]
      /\ work' = IF held[to] = Nothing THEN Idle ELSE [doing |-> "destroy", own |-> held[to]]
  BY DEF MoveInstance, Ending
<1>2. /\ held' \in [Instances -> Members] /\ held'[to] = held[from] /\ held'[from] = Nothing
      /\ \A j \in Instances : j # from /\ j # to => held'[j] = held[j]
  BY <1>1 DEF TypesInv, Nothing, Members
<1>3. held[to] # Nothing => work' \in Ends /\ work' # Idle /\ work'.own = held[to]
  BY <1>1 DEF TypesInv, Ends, Idle
<1>4. TypesInv'
  BY <1>1, <1>2, <1>3 DEF TypesInv, nativeVars
<1>5. Owners' = Owners
  BY <1>1, <1>2, <1>3 DEF Owners
<1>6. \A j, k \in Instances : j # k => held'[j] = Nothing \/ held'[j] # held'[k]
  BY <1>1, <1>2 DEF OwnersInv
<1>7. work' # Idle => \A j \in Instances : held'[j] # work'.own
  BY <1>1, <1>2, <1>3 DEF OwnersInv
<1>8. OwnersInv' /\ NativeInv'
  BY <1>1, <1>5, <1>6, <1>7, HandedOver
<1>9. Progress'
  BY <1>1, <1>2, <1>3 DEF Progress, Idle, Ends
<1> QED BY <1>1, <1>4, <1>8, <1>9

LEMMA DestroyInstanceStep ==
    ASSUME Inv, NEW i \in Instances, DestroyInstance(i)
    PROVE  Inv'
<1> USE DEF Inv
<1>1. /\ held[i] # Nothing /\ work = Idle /\ UNCHANGED <<plan, nativeVars>>
      /\ held' = [held EXCEPT ![i] = Nothing]
      /\ work' = [doing |-> "destroy", own |-> held[i]]
  BY DEF DestroyInstance, Ending
<1>2. /\ held' \in [Instances -> Members] /\ held'[i] = Nothing
      /\ \A j \in Instances : j # i => held'[j] = held[j]
  BY <1>1 DEF TypesInv, Nothing, Members
<1>3. work' \in Ends /\ work' # Idle /\ work'.own = held[i]
  BY <1>1 DEF TypesInv, Ends, Idle
<1>4. TypesInv'
  BY <1>1, <1>2, <1>3 DEF TypesInv, nativeVars
<1>5. Owners' = Owners
  BY <1>1, <1>2, <1>3 DEF Owners
<1>6. /\ \A j, k \in Instances : j # k => held'[j] = Nothing \/ held'[j] # held'[k]
      /\ \A j \in Instances : held'[j] # work'.own
  BY <1>1, <1>2, <1>3 DEF OwnersInv
<1>7. OwnersInv' /\ NativeInv'
  BY <1>1, <1>5, <1>6, HandedOver
<1>8. Progress'
  BY <1>1, <1>2, <1>3 DEF Progress, Ends
<1> QED BY <1>1, <1>4, <1>7, <1>8

(* The order of the members is the order in which they go.                  *)
LEMMA Order ==
    ASSUME NEW member, Destroying(member)
    PROVE  /\ work.doing = "destroy"
           /\ member = "messenger" => work.own.messenger # 0
           /\ member = "instance" => work.own.instance # 0 /\ work.own.messenger = 0
           /\ member = "callback" =>
                work.own.callback # NoAddress /\ work.own.instance = 0 /\ work.own.messenger = 0
           /\ member = "context" =>
                work.own.callback = NoAddress /\ work.own.instance = 0 /\ work.own.messenger = 0
<1>1. /\ DOMAIN MemberOrder = 1..4 /\ MemberOrder[1] = "context" /\ MemberOrder[2] = "callback"
      /\ MemberOrder[3] = "instance" /\ MemberOrder[4] = "messenger"
  BY DEF MemberOrder
<1>2. /\ Present(work.own, "callback") <=> work.own.callback # NoAddress
      /\ Present(work.own, "instance") <=> work.own.instance # 0
      /\ Present(work.own, "messenger") <=> work.own.messenger # 0
  BY DEF Present, Nothing
<1>3. PICK k \in 1..4 :
        /\ MemberOrder[k] = member /\ Present(work.own, member)
        /\ \A j \in 1..4 : j > k => ~Present(work.own, MemberOrder[j])
  BY <1>1 DEF Destroying
<1>4. CASE k = 1
  BY <1>1, <1>2, <1>3, <1>4 DEF Destroying
<1>5. CASE k = 2
  BY <1>1, <1>2, <1>3, <1>5 DEF Destroying
<1>6. CASE k = 3
  BY <1>1, <1>2, <1>3, <1>6 DEF Destroying
<1>7. CASE k = 4
  BY <1>1, <1>2, <1>3, <1>7 DEF Destroying
<1> QED BY <1>3, <1>4, <1>5, <1>6, <1>7

LEMMA AtEnd ==
    ASSUME Inv, work.doing = "destroy"
    PROVE  /\ work \in Ends /\ work # Idle /\ work.own \in Members
           /\ work.own \in Owners /\ Backed(work.own) /\ Described(Number)
           /\ DOMAIN work = {"doing", "own"}
           /\ Number \in DOMAIN vulkan /\ Number # 0
<1>1. work \in Ends /\ work # Idle
  BY DEF Inv, TypesInv, Idle, Creations
<1>2. work.own \in Owners /\ Backed(work.own)
  BY <1>1 DEF Owners, Inv, OwnersInv
<1>3. Number \in DOMAIN vulkan /\ Number # 0
  BY <1>2, OwnersAreMembers DEF Inv, Number
<1> QED BY <1>1, <1>2, <1>3 DEF Ends, Inv, NativeInv

LEMMA DestroyMessengerStep ==
    ASSUME Inv, DestroyMessenger
    PROVE  Inv'
<1> USE DEF Inv
<1>1. PICK n : n = Number
  OBVIOUS
<1>2. PICK x : x = [vulkan[n] EXCEPT !.messenger = FALSE]
  OBVIOUS
<1>3. PICK new : new = [work.own EXCEPT !.messenger = 0]
  OBVIOUS
<1>4. /\ work.doing = "destroy" /\ work.own.messenger # 0
      /\ UNCHANGED <<held, contexts, plan, sinkOf>>
      /\ vulkan' = [vulkan EXCEPT ![n] = x] /\ work' = [work EXCEPT !.own = new]
  BY <1>1, <1>2, <1>3, Order DEF DestroyMessenger, Without, Nothing
<1>5. /\ work \in Ends /\ work # Idle /\ work.own \in Members
      /\ n \in DOMAIN vulkan /\ Backed(work.own)
      /\ work.own.context = n /\ n # 0 /\ Described(n)
  BY <1>1, <1>4, AtEnd DEF Number
<1>6. Exists(n) /\ work.own.instance # 0
  BY <1>4, <1>5 DEF Backed
<1>7. /\ x.phase = vulkan[n].phase /\ ~x.messenger /\ x.userData = vulkan[n].userData
      /\ x.sink = vulkan[n].sink /\ DOMAIN x = DOMAIN vulkan[n]
  BY <1>2, <1>5, <1>6 DEF Described
<1>8. /\ new \in Members /\ new.context = n /\ new.callback = work.own.callback
      /\ new.instance = work.own.instance /\ new.messenger = 0
  BY <1>3, <1>5 DEF Members
<1>9. work' \in Ends /\ work'.own = new /\ work'.doing = "destroy"
  BY <1>4, <1>5, <1>8 DEF Ends
<1>10. /\ vulkan'[n] = x /\ \A m \in DOMAIN vulkan : m # n => vulkan'[m] = vulkan[m]
       /\ DOMAIN vulkan' = DOMAIN vulkan /\ vulkan' = [m \in DOMAIN vulkan' |-> vulkan'[m]]
  BY <1>4, <1>5
<1>11. Backed(work.own)'
  <2>1. Backed(new)'
    BY <1>4, <1>5, <1>6, <1>7, <1>8, <1>10 DEF Backed, Exists
  <2> QED BY <1>9, <2>1 DEF Backed
<1>12. Described(n)'
  BY <1>4, <1>5, <1>6, <1>7, <1>10 DEF Described, Exists
<1>13. Progress'
  BY <1>4, <1>6, <1>8, <1>9 DEF Progress
<1> QED BY <1>1, <1>4, <1>5, <1>8, <1>9, <1>10, <1>11, <1>12, <1>13, NativeChanges

LEMMA DestroyNativeStep ==
    ASSUME Inv, DestroyNative
    PROVE  Inv'
<1> USE DEF Inv
<1>1. PICK n : n = Number
  OBVIOUS
<1>2. /\ work.doing = "destroy" /\ work.own.instance # 0 /\ work.own.messenger = 0
      /\ UNCHANGED <<held, contexts, plan, sinkOf>>
  BY Order DEF DestroyNative
<1>3. /\ work \in Ends /\ work # Idle /\ work.own \in Members
      /\ n \in DOMAIN vulkan /\ Backed(work.own)
      /\ work.own.context = n /\ n # 0 /\ Described(n)
  BY <1>1, <1>2, AtEnd DEF Number
<1>4. work.own.instance = n /\ vulkan[n].phase \in {"alive", "destroying"} /\ Exists(n)
  BY <1>2, <1>3 DEF Backed, Exists
<1>5. CASE vulkan[n].phase = "alive"
  <2>1. PICK x : x = [vulkan[n] EXCEPT !.phase = "destroying"]
    OBVIOUS
  <2>2. vulkan' = [vulkan EXCEPT ![n] = x] /\ work' = work
    BY <1>4, <1>5, <2>1 DEF DestroyNative
  <2>3. /\ x.phase = "destroying" /\ x.messenger = vulkan[n].messenger
        /\ x.userData = vulkan[n].userData /\ x.sink = vulkan[n].sink /\ DOMAIN x = DOMAIN vulkan[n]
    BY <1>3, <1>4, <2>1 DEF Described
  <2>4. /\ vulkan'[n] = x /\ \A m \in DOMAIN vulkan : m # n => vulkan'[m] = vulkan[m]
        /\ DOMAIN vulkan' = DOMAIN vulkan /\ vulkan' = [m \in DOMAIN vulkan' |-> vulkan'[m]]
    BY <1>3, <2>2
  <2>5. Backed(work.own)'
    BY <1>2, <1>3, <1>4, <2>2, <2>3, <2>4 DEF Backed, Exists
  <2>6. Described(n)'
    BY <1>2, <1>3, <1>4, <2>3, <2>4 DEF Described, Exists
  <2>7. Progress'
    BY <1>2, <2>2 DEF Progress
  <2> QED BY <1>1, <1>2, <1>3, <2>2, <2>4, <2>5, <2>6, <2>7, NativeChanges
<1>6. CASE vulkan[n].phase # "alive"
  <2>1. PICK new : new = [work.own EXCEPT !.instance = 0]
    OBVIOUS
  <2>2. vulkan' = [vulkan EXCEPT ![n] = [phase |-> "none"]] /\ work' = [work EXCEPT !.own = new]
    BY <1>4, <1>6, <2>1 DEF DestroyNative, Without, Nothing
  <2>3. /\ new \in Members /\ new.context = n /\ new.callback = work.own.callback
        /\ new.instance = 0 /\ new.messenger = 0
    BY <1>2, <1>3, <2>1 DEF Members
  <2>4. work' \in Ends /\ work'.own = new /\ work'.doing = "destroy"
    BY <1>3, <2>2, <2>3 DEF Ends
  <2>5. /\ vulkan'[n].phase = "none" /\ \A m \in DOMAIN vulkan : m # n => vulkan'[m] = vulkan[m]
        /\ DOMAIN vulkan' = DOMAIN vulkan /\ vulkan' = [m \in DOMAIN vulkan' |-> vulkan'[m]]
    BY <1>3, <2>2
  <2>6. Backed(work.own)'
    <3>1. Backed(new)'
      BY <1>2, <1>3, <2>3, <2>5 DEF Backed, Exists
    <3> QED BY <2>4, <3>1 DEF Backed
  <2>7. Described(n)'
    BY <2>5 DEF Described, Exists
  <2>8. Progress'
    BY <1>2, <2>3, <2>4, <2>5 DEF Progress, Number, Exists
  <2> QED BY <1>1, <1>2, <1>3, <2>3, <2>4, <2>5, <2>6, <2>7, <2>8, NativeChanges
<1> QED BY <1>5, <1>6

LEMMA FreeCallbackStateStep ==
    ASSUME Inv, FreeCallbackState
    PROVE  Inv'
<1> USE DEF Inv
<1>1. PICK old : old = work.own
  OBVIOUS
<1>2. PICK new : new = [old EXCEPT !.callback = NoAddress]
  OBVIOUS
<1>3. /\ work.doing = "destroy"
      /\ old.callback # NoAddress /\ old.instance = 0 /\ old.messenger = 0
      /\ UNCHANGED <<held, contexts, plan, vulkan>>
      /\ sinkOf' = [sinkOf EXCEPT ![old.callback] = NoAddress]
      /\ work' = [work EXCEPT !.own = new]
  BY <1>1, <1>2, Order DEF FreeCallbackState, Without, Nothing
<1>4. /\ work \in Ends /\ work # Idle /\ old \in Members
      /\ old.context \in DOMAIN vulkan /\ Backed(old)
      /\ Described(old.context)
  BY <1>1, <1>3, AtEnd DEF Number
<1>5. ~Exists(old.context) /\ \A i \in Instances : held[i] # Nothing => held[i].instance # 0
  BY <1>1, <1>3 DEF Progress, Number
<1>6. /\ new \in Members /\ new.context = old.context /\ new.callback = NoAddress
      /\ new.instance = 0 /\ new.messenger = 0
  BY <1>2, <1>3, <1>4 DEF Members
<1>7. work' \in Ends /\ work'.own = new /\ work'.doing = "destroy" /\ work' # Idle
  BY <1>3, <1>4, <1>6 DEF Ends, Idle
<1>8. old.callback \in Addresses /\ sinkOf'[old.callback] = NoAddress
      /\ \A a \in Addresses : a # old.callback => sinkOf'[a] = sinkOf[a]
  BY <1>3, <1>4 DEF TypesInv, Members
<1>9. Backed(new)'
  BY <1>3, <1>4, <1>5, <1>6 DEF Backed, Exists
<1>10. Described(old.context)'
  BY <1>3, <1>5 DEF Described, Exists
<1>11. OwnersInv' /\ NativeInv'
  BY <1>1, <1>3, <1>4, <1>6, <1>7, <1>8, <1>9, <1>10, WorkChanges
<1>12. TypesInv'
  BY <1>3, <1>7 DEF TypesInv
<1>13. Progress'
  BY <1>3, <1>5, <1>6, <1>7 DEF Progress, Number, Exists
<1> QED BY <1>3, <1>11, <1>12, <1>13

LEMMA CloseContextStep ==
    ASSUME Inv, CloseContext
    PROVE  Inv'
<1> USE DEF Inv
<1>1. PICK own : own = work.own
  OBVIOUS
<1>2. /\ work.doing = "destroy"
      /\ own.callback = NoAddress /\ own.instance = 0 /\ own.messenger = 0
      /\ UNCHANGED <<held, plan, vulkan, sinkOf>>
      /\ contexts' = contexts \ {own.context} /\ work' = Idle
  BY <1>1, Order DEF CloseContext, Number
<1>3. work # Idle /\ own \in Owners /\ Described(own.context)
  BY <1>1, <1>2, AtEnd DEF Number
<1>4. ~Exists(own.context) /\ \A i \in Instances : held[i] # Nothing => held[i].instance # 0
  BY <1>1, <1>2 DEF Progress, Number
<1>5. Owners' = Owners \ {own}
  BY <1>1, <1>2, <1>3 DEF Owners, OwnersInv
<1>6. ASSUME NEW o \in Owners' PROVE o.context # own.context /\ Backed(o)'
  BY <1>2, <1>3, <1>5, <1>6 DEF OwnersInv, Apart, Backed, Exists
<1>7. \A a \in Addresses : sinkOf'[a] # NoAddress => \E o \in Owners' : o.callback = a
  BY <1>2, <1>5, InstanceAssumption DEF OwnersInv
<1>8. \A n \in contexts' : \E o \in Owners' : o.context = n
  BY <1>2, <1>5 DEF OwnersInv
<1>9. \A o, p \in Owners' : o # p => Apart(o, p)'
  BY <1>5 DEF OwnersInv, Apart
<1>10. OwnersInv'
  BY <1>2, <1>6, <1>7, <1>8, <1>9 DEF OwnersInv
<1>11. NativeInv'
  BY <1>2, <1>4 DEF NativeInv, Described, Exists
<1>12. TypesInv' /\ Progress'
  BY <1>2, <1>4 DEF TypesInv, Progress, Idle
<1> QED BY <1>2, <1>10, <1>11, <1>12

(* What resolving, asking the loader, or a callback leave alone.            *)
LEMMA NothingMade ==
    ASSUME Inv, UNCHANGED <<held, work, nativeVars>>, plan' = plan \/ work = Idle
    PROVE  Inv'
<1> USE DEF Inv
<1>1. TypesInv'
  BY DEF TypesInv, nativeVars
<1>2. Owners' = Owners
  BY DEF Owners
<1>3. OwnersInv' /\ NativeInv'
  BY <1>2, HandedOver DEF OwnersInv
<1>4. Progress'
  BY DEF Progress, Number, Exists, Idle, nativeVars
<1> QED BY <1>1, <1>3, <1>4

LEMMA InstancesKept == Inv /\ [Next]_vars => Inv'
<1> SUFFICES ASSUME Inv, [Next]_vars PROVE Inv'
  OBVIOUS
<1>1. ASSUME plan' = plan \/ work = Idle, UNCHANGED <<held, work, nativeVars>> PROVE Inv'
  BY <1>1, NothingMade
<1>2. CASE Query \/ MovePlanAway \/ UNCHANGED vars
  BY <1>1, <1>2 DEF Query, MovePlanAway, vars, resolveVars
<1>3. ASSUME NEW n \in DOMAIN vulkan, NEW message \in Messages, Callback(n, message)
      PROVE  Inv'
  BY <1>1, <1>3 DEF Callback
<1>4. ASSUME NEW d \in Descriptions, ResolveQueried(d) PROVE Inv'
  BY <1>1, <1>4 DEF ResolveQueried, Resolve
<1>5. ASSUME NEW d \in Descriptions, NEW c \in Snapshots, Resolve(d, c) PROVE Inv'
  BY <1>1, <1>5 DEF Resolve
<1> QED BY <1>2, <1>3, <1>4, <1>5, CreateStep, MakeCallbackStateStep, CallNativeStep,
           NativeReturnsStep, MakeMessengerStep, MakeImplStep, UnwindStep, DestroyMessengerStep,
           DestroyNativeStep, FreeCallbackStateStep, CloseContextStep, MoveInstanceStep,
           DestroyInstanceStep DEF Next

LEMMA InstancesHold == Spec => []Inv
BY InstanceStarts, InstancesKept, PTL DEF Spec

-----------------------------------------------------------------------------
(* Retained plans                                                          *)

\* Native instance n was made with what the plan lists.
MadeFrom(n, p) ==
    /\ vulkan[n].version = p.version
    /\ vulkan[n].extensions = p.extensions /\ vulkan[n].layers = p.layers

\* The plan beside an implementation is the one of its native instance.
Known(i) ==
    held[i] # Nothing =>
        /\ MadeFrom(held[i].context, retained[i])
        /\ vulkan[held[i].context].messenger <=> retained[i].debug_utils_enabled

\* And it will be: the caller's plan stays the same while the call is under way.
Making ==
    work.doing = "create" =>
        /\ work.at \in {"native", "messenger", "impl"} => MadeFrom(Number, plan)
        /\ work.at = "native" => ~vulkan[Number].messenger
        /\ work.at = "messenger" => plan.debug_utils_enabled
        /\ work.at = "impl" => (vulkan[Number].messenger <=> plan.debug_utils_enabled)

RetainedInv ==
    /\ retained = [i \in Instances |-> retained[i]]
    /\ \A i \in Instances : Known(i)
    /\ Making

LEMMA RetainedStarts == Init => RetainedInv
BY DEF Init, RetainedInv, Known, Making, Idle

(* The call under way touches no native instance but its own.               *)
LEMMA OthersKnown ==
    ASSUME Inv, RetainedInv, UNCHANGED <<held, retained>>, work # Idle, Making',
           \A n \in DOMAIN vulkan : n # Number => vulkan'[n] = vulkan[n]
    PROVE  RetainedInv'
<1>1. ASSUME NEW i \in Instances, held[i] # Nothing
      PROVE  vulkan'[held[i].context] = vulkan[held[i].context]
  <2>1. held[i] \in Owners /\ work.own \in Owners /\ held[i] # work.own
    BY <1>1 DEF Owners, Inv, OwnersInv
  <2>2. held[i].context # Number /\ held[i].context \in DOMAIN vulkan
    BY <2>1 DEF Inv, OwnersInv, Apart, Backed, Number
  <2> QED BY <2>2
<1>2. \A i \in Instances : Known(i)'
  BY <1>1 DEF RetainedInv, Known, MadeFrom
<1> QED BY <1>2 DEF RetainedInv

(* createInstance()                                                         *)
LEMMA CreateRetains ==
    ASSUME Inv, RetainedInv, NEW i \in Instances, NEW sink \in Sinks \cup {NoSink}, Create(i, sink)
    PROVE  RetainedInv'
<1>1. /\ UNCHANGED <<held, retained>> /\ work'.doing = "create" /\ work'.at = "callback"
      /\ vulkan' = Append(vulkan, [phase |-> "none"])
  BY DEF Create
<1>2. ASSUME NEW j \in Instances, held[j] # Nothing
      PROVE  vulkan'[held[j].context] = vulkan[held[j].context]
  <2>1. held[j] \in Owners
    BY <1>2 DEF Owners
  <2>2. held[j].context \in DOMAIN vulkan
    BY <2>1, OwnersAreMembers DEF Inv
  <2>3. vulkan \in Seq({vulkan[n] : n \in DOMAIN vulkan})
    BY DEF Inv, TypesInv
  <2> QED BY <1>1, <2>2, <2>3
<1>3. \A j \in Instances : Known(j)'
  BY <1>1, <1>2 DEF RetainedInv, Known, MadeFrom
<1> QED BY <1>1, <1>3 DEF RetainedInv, Making

LEMMA CallNativeRetains ==
    ASSUME Inv, RetainedInv, CallNative
    PROVE  RetainedInv'
<1>1. PICK n : n = Number
  OBVIOUS
<1>2. PICK x : x = [phase |-> "creating", version |-> plan.version, extensions |-> plan.extensions,
                    layers |-> plan.layers, chained |-> plan.debug_utils_enabled,
                    messenger |-> FALSE, userData |-> work.own.callback, sink |-> work.sink]
  OBVIOUS
<1>3. /\ work.doing = "create" /\ UNCHANGED <<held, retained, plan>>
      /\ vulkan' = [vulkan EXCEPT ![n] = x] /\ work' = [work EXCEPT !.at = "native"]
  BY <1>1, <1>2 DEF CallNative, Creating
<1>4. work \in Creations /\ work # Idle /\ n \in DOMAIN vulkan
  BY <1>1, <1>3, AtWork
<1>5. /\ vulkan'[n] = x /\ Number' = n /\ work'.at = "native"
      /\ \A m \in DOMAIN vulkan : m # n => vulkan'[m] = vulkan[m]
  BY <1>1, <1>3, <1>4 DEF Creations, Number
<1>6. Making'
  BY <1>2, <1>3, <1>5 DEF Making, MadeFrom
<1> QED BY <1>1, <1>3, <1>4, <1>5, <1>6, OthersKnown

LEMMA NativeReturnsRetains ==
    ASSUME Inv, RetainedInv, NativeReturns
    PROVE  RetainedInv'
<1>1. PICK n : n = Number
  OBVIOUS
<1>2. PICK x : x = [vulkan[n] EXCEPT !.phase = "alive"]
  OBVIOUS
<1>3. PICK at : at = IF plan.debug_utils_enabled THEN "messenger" ELSE "impl"
  OBVIOUS
<1>4. /\ work.doing = "create" /\ work.at = "native" /\ UNCHANGED <<held, retained, plan>>
      /\ vulkan' = [vulkan EXCEPT ![n] = x]
      /\ work' = [work EXCEPT !.own.instance = n, !.at = at]
  BY <1>1, <1>2, <1>3 DEF NativeReturns, Creating
<1>5. work \in Creations /\ work # Idle /\ n \in DOMAIN vulkan /\ Described(n) /\ Exists(n)
  BY <1>1, <1>4, AtWork DEF Inv, Progress, Exists
<1>6. /\ vulkan'[n] = x /\ Number' = n /\ work'.at = at
      /\ \A m \in DOMAIN vulkan : m # n => vulkan'[m] = vulkan[m]
  BY <1>1, <1>4, <1>5 DEF Creations, Members, Number
<1>7. /\ x.version = vulkan[n].version /\ x.extensions = vulkan[n].extensions
      /\ x.layers = vulkan[n].layers /\ x.messenger = vulkan[n].messenger
  BY <1>2, <1>5 DEF Described
<1>8. MadeFrom(n, plan) /\ ~vulkan[n].messenger
  BY <1>1, <1>4 DEF RetainedInv, Making
<1>9. Making'
  BY <1>3, <1>4, <1>6, <1>7, <1>8 DEF Making, MadeFrom
<1> QED BY <1>1, <1>4, <1>5, <1>6, <1>9, OthersKnown

LEMMA MakeMessengerRetains ==
    ASSUME Inv, RetainedInv, MakeMessenger
    PROVE  RetainedInv'
<1>1. PICK n : n = Number
  OBVIOUS
<1>2. PICK x : x = [vulkan[n] EXCEPT !.messenger = TRUE]
  OBVIOUS
<1>3. /\ work.doing = "create" /\ work.at = "messenger" /\ UNCHANGED <<held, retained, plan>>
      /\ vulkan' = [vulkan EXCEPT ![n] = x]
      /\ work' = [work EXCEPT !.own.messenger = n, !.at = "impl"]
  BY <1>1, <1>2 DEF MakeMessenger, Creating
<1>4. work \in Creations /\ work # Idle /\ n \in DOMAIN vulkan /\ Described(n) /\ Exists(n)
  BY <1>1, <1>3, AtWork DEF Inv, Progress, Exists
<1>5. /\ vulkan'[n] = x /\ Number' = n /\ work'.at = "impl"
      /\ \A m \in DOMAIN vulkan : m # n => vulkan'[m] = vulkan[m]
  BY <1>1, <1>3, <1>4 DEF Creations, Members, Number
<1>6. /\ x.version = vulkan[n].version /\ x.extensions = vulkan[n].extensions
      /\ x.layers = vulkan[n].layers /\ x.messenger
  BY <1>2, <1>4 DEF Described
<1>7. MadeFrom(n, plan) /\ plan.debug_utils_enabled
  BY <1>1, <1>3 DEF RetainedInv, Making
<1>8. Making'
  BY <1>3, <1>5, <1>6, <1>7 DEF Making, MadeFrom
<1> QED BY <1>1, <1>3, <1>4, <1>5, <1>8, OthersKnown

LEMMA MakeImplRetains ==
    ASSUME Inv, RetainedInv, MakeImpl
    PROVE  RetainedInv'
<1>1. PICK i : i = work.wrapper
  OBVIOUS
<1>2. /\ work.doing = "create" /\ work.at = "impl" /\ vulkan' = vulkan /\ work' = Idle
      /\ held' = [held EXCEPT ![i] = work.own] /\ retained' = [retained EXCEPT ![i] = plan]
  BY <1>1 DEF MakeImpl, Creating, nativeVars
<1>3. i \in Instances
  BY <1>1, <1>2, AtWork DEF Creations
<1>4. /\ held'[i] = work.own /\ retained'[i] = plan
      /\ \A j \in Instances : j # i => held'[j] = held[j] /\ retained'[j] = retained[j]
      /\ retained' = [j \in Instances |-> retained'[j]]
  BY <1>2, <1>3 DEF RetainedInv, Inv, TypesInv
<1>5. MadeFrom(work.own.context, plan)
      /\ (vulkan[work.own.context].messenger <=> plan.debug_utils_enabled)
  BY <1>2 DEF RetainedInv, Making, Number
<1>6. ASSUME NEW j \in Instances PROVE Known(j)'
  <2>1. CASE j = i
    BY <1>2, <1>4, <1>5, <2>1 DEF Known, MadeFrom
  <2>2. CASE j # i
    BY <1>2, <1>4, <2>2 DEF RetainedInv, Known, MadeFrom
  <2> QED BY <2>1, <2>2
<1> QED BY <1>2, <1>4, <1>6 DEF RetainedInv, Making, Idle

(* The end of an Impl, and what a wrapper hands on.                         *)
LEMMA EndRetains ==
    ASSUME Inv, RetainedInv,
           DestroyMessenger \/ DestroyNative \/ FreeCallbackState \/ CloseContext
    PROVE  RetainedInv'
<1>1. work.doing = "destroy" /\ UNCHANGED <<held, retained>>
  BY DEF DestroyMessenger, DestroyNative, FreeCallbackState, CloseContext, Destroying
<1>2. work \in Ends /\ work # Idle
  BY <1>1, AtEnd
<1>3. work'.doing # "create"
  <2>1. CASE work' = Idle
    BY <2>1 DEF Idle
  <2>2. CASE work' = work
    BY <1>1, <2>2
  <2>3. ASSUME NEW member, work' = Without(member) PROVE work'.doing # "create"
    BY <1>1, <1>2, <2>3 DEF Without, Ends
  <2> QED BY <2>1, <2>2, <2>3
          DEF DestroyMessenger, DestroyNative, FreeCallbackState, CloseContext
<1>4. ASSUME NEW n \in DOMAIN vulkan, n # Number PROVE vulkan'[n] = vulkan[n]
  <2>1. CASE DestroyMessenger
    BY <1>4, <2>1 DEF DestroyMessenger
  <2>2. CASE DestroyNative
    <3>1. work.own.instance = Number
      BY <1>1, <2>2, AtEnd, Order DEF DestroyNative, Backed, Number
    <3> QED BY <1>4, <2>2, <3>1 DEF DestroyNative
  <2>3. CASE FreeCallbackState \/ CloseContext
    BY <2>3 DEF FreeCallbackState, CloseContext
  <2> QED BY <2>1, <2>2, <2>3
<1> QED BY <1>1, <1>2, <1>3, <1>4, OthersKnown DEF Making

LEMMA MoveRetains ==
    ASSUME Inv, RetainedInv, NEW from \in Instances, NEW to \in Instances, MoveInstance(from, to)
    PROVE  RetainedInv'
<1>1. /\ from # to /\ vulkan' = vulkan /\ work'.doing # "create"
      /\ held' = [held EXCEPT ![to] = held[from], ![from] = Nothing]
      /\ retained' = [retained EXCEPT ![to] = retained[from], ![from] = NoPlan]
  BY DEF MoveInstance, nativeVars, Idle, Ending
<1>2. /\ held'[to] = held[from] /\ held'[from] = Nothing /\ retained'[to] = retained[from]
      /\ \A j \in Instances : j # from /\ j # to =>
            held'[j] = held[j] /\ retained'[j] = retained[j]
      /\ retained' = [j \in Instances |-> retained'[j]]
  BY <1>1 DEF RetainedInv, Inv, TypesInv
<1>3. ASSUME NEW j \in Instances PROVE Known(j)'
  <2>1. CASE j = to
    BY <1>1, <1>2, <2>1 DEF RetainedInv, Known, MadeFrom
  <2>2. CASE j = from
    BY <1>2, <2>2 DEF Known, Nothing
  <2>3. CASE j # to /\ j # from
    <3>1. held'[j] = held[j] /\ retained'[j] = retained[j] /\ vulkan' = vulkan
      BY <1>1, <1>2, <2>3
    <3> QED BY <3>1 DEF RetainedInv, Known, MadeFrom
  <2> QED BY <2>1, <2>2, <2>3
<1> QED BY <1>1, <1>2, <1>3 DEF RetainedInv, Making

LEMMA DestroyRetains ==
    ASSUME Inv, RetainedInv, NEW i \in Instances, DestroyInstance(i)
    PROVE  RetainedInv'
<1>1. /\ vulkan' = vulkan /\ work'.doing # "create" /\ held' = [held EXCEPT ![i] = Nothing]
      /\ retained' = [retained EXCEPT ![i] = NoPlan]
  BY DEF DestroyInstance, nativeVars, Ending
<1>2. /\ held'[i] = Nothing
      /\ \A j \in Instances : j # i => held'[j] = held[j] /\ retained'[j] = retained[j]
      /\ retained' = [j \in Instances |-> retained'[j]]
  BY <1>1 DEF RetainedInv, Inv, TypesInv
<1>3. \A j \in Instances : Known(j)'
  BY <1>1, <1>2 DEF RetainedInv, Known, MadeFrom, Nothing
<1> QED BY <1>1, <1>2, <1>3 DEF RetainedInv, Making

LEMMA PlansRetained == Spec => []RetainedInv
<1>1. ASSUME Inv, RetainedInv, [Next]_vars PROVE RetainedInv'
  <2>1. ASSUME UNCHANGED <<held, retained, work, nativeVars>>, plan' = plan \/ work = Idle
        PROVE  RetainedInv'
    BY <1>1, <2>1 DEF RetainedInv, Known, Making, MadeFrom, Number, Idle, nativeVars
  <2>2. CASE Query \/ MovePlanAway \/ UNCHANGED vars
    BY <2>1, <2>2 DEF Query, MovePlanAway, vars, resolveVars
  <2>3. ASSUME NEW n \in DOMAIN vulkan, NEW message \in Messages, Callback(n, message)
        PROVE  RetainedInv'
    BY <2>1, <2>3 DEF Callback
  <2>4. ASSUME NEW d \in Descriptions, ResolveQueried(d) PROVE RetainedInv'
    BY <2>1, <2>4 DEF ResolveQueried, Resolve
  <2>5. ASSUME NEW d \in Descriptions, NEW c \in Snapshots, Resolve(d, c) PROVE RetainedInv'
    BY <2>1, <2>5 DEF Resolve
  <2>6. CASE MakeCallbackState
    <3>1. /\ work.doing = "create" /\ vulkan' = vulkan /\ UNCHANGED <<held, retained>>
          /\ \E a \in Addresses : work' = [work EXCEPT !.at = "instance", !.own.callback = a]
      BY <2>6 DEF MakeCallbackState, Creating
    <3>2. work \in Creations /\ work # Idle
      BY <1>1, <3>1, AtWork
    <3>3. work'.at = "instance"
      BY <3>1, <3>2 DEF Creations
    <3> QED BY <1>1, <3>1, <3>2, <3>3, OthersKnown DEF Making
  <2>7. CASE Unwind
    <3>1. /\ work.doing = "create" /\ work'.doing = "destroy" /\ UNCHANGED <<held, retained>>
          /\ \A n \in DOMAIN vulkan : n # Number => vulkan'[n] = vulkan[n]
      BY <2>7 DEF Unwind, Creating, Ending
    <3>2. work # Idle
      BY <1>1, <3>1, AtWork
    <3> QED BY <1>1, <3>1, <3>2, OthersKnown DEF Making
  <2> QED BY <1>1, <2>2, <2>3, <2>4, <2>5, <2>6, <2>7, CreateRetains, CallNativeRetains,
             NativeReturnsRetains, MakeMessengerRetains, MakeImplRetains, EndRetains, MoveRetains,
             DestroyRetains DEF Next
<1> QED BY <1>1, RetainedStarts, InstancesHold, PTL DEF Spec

-----------------------------------------------------------------------------
(* Events                                                                  *)

LEMMA CategoryAdded ==
    ASSUME NEW S, NEW s \in Seq(S), IsInjective(s), NEW c \in S, c \notin Range(s)
    PROVE  /\ Append(s, c) \in Seq(S) /\ IsInjective(Append(s, c))
           /\ Range(Append(s, c)) = Range(s) \cup {c}
<1> DEFINE n == Len(s)
           more == Append(s, c)
<1>1. /\ n \in Nat /\ DOMAIN s = 1..n /\ DOMAIN more = 1..n + 1 /\ more \in Seq(S)
      /\ \A k \in 1..n : more[k] = s[k]
      /\ more[n + 1] = c
  OBVIOUS
<1> HIDE DEF more, n
<1>2. \A k \in 1..n + 1 : k \in 1..n \/ k = n + 1
  BY <1>1
<1>3. \A k \in 1..n : s[k] # c
  BY <1>1 DEF Range
<1>4. IsInjective(more)
  BY <1>1, <1>2, <1>3 DEF IsInjective
<1>5. Range(more) = Range(s) \cup {c}
  <2>1. 1..n \subseteq 1..n + 1 /\ n + 1 \in 1..n + 1
    BY <1>1
  <2> QED BY <1>1, <1>2, <2>1 DEF Range
<1> QED BY <1>1, <1>4, <1>5 DEF more

(* canonical_categories() finds every category of a mask once.              *)
LEMMA CategoriesFound ==
    ASSUME NEW types, types \subseteq Range(CategoryOrder)
    PROVE  Range(Categories(types)) = types /\ IsInjective(Categories(types))
<1> DEFINE With(s, n) == IF CategoryOrder[n] \in types THEN Append(s, CategoryOrder[n]) ELSE s
           s1 == With(<<>>, 1)
           s2 == With(s1, 2)
           s3 == With(s2, 3)
           s4 == With(s3, 4)
           f == [n \in 0..4 |-> IF n = 0 THEN <<>> ELSE IF n = 1 THEN s1 ELSE IF n = 2 THEN s2
                                ELSE IF n = 3 THEN s3 ELSE s4]
           taken == CHOOSE g : g = [n \in 0..Len(CategoryOrder) |->
                        IF n = 0 THEN <<>>
                        ELSE IF CategoryOrder[n] \in types THEN Append(g[n - 1], CategoryOrder[n])
                        ELSE g[n - 1]]
<1>1. Len(CategoryOrder) = 4 /\ DOMAIN CategoryOrder = 1..4
  BY DEF CategoryOrder
<1>2. f = [n \in 0..4 |-> IF n = 0 THEN <<>> ELSE With(f[n - 1], n)]
  <2> HIDE DEF With, s1, s2, s3, s4
  <2>1. ASSUME NEW n \in 0..4 PROVE f[n] = IF n = 0 THEN <<>> ELSE With(f[n - 1], n)
    <3>1. n \in {0, 1, 2, 3, 4}
      OBVIOUS
    <3>2. f[0] = <<>> /\ f[1] = s1 /\ f[2] = s2 /\ f[3] = s3 /\ f[4] = s4
      OBVIOUS
    <3> HIDE DEF f
    <3>3. 1 - 1 = 0 /\ 2 - 1 = 1 /\ 3 - 1 = 2 /\ 4 - 1 = 3
      OBVIOUS
    <3> QED BY <3>1, <3>2, <3>3 DEF s1, s2, s3, s4
  <2> QED BY <2>1
<1> HIDE DEF f
<1>3. taken = [n \in 0..4 |-> IF n = 0 THEN <<>> ELSE With(taken[n - 1], n)]
  BY <1>1, <1>2
<1>4. Categories(types) = taken[4]
  BY <1>1 DEF Categories
<1> HIDE DEF taken
<1> DEFINE Holds(n) ==
             /\ taken[n] \in Seq(Range(CategoryOrder)) /\ IsInjective(taken[n])
             /\ Range(taken[n]) = types \cap {CategoryOrder[k] : k \in 1..n}
<1>5. Holds(0)
  <2>1. taken[0] = <<>>
    BY <1>3
  <2> QED BY <2>1 DEF IsInjective, Range
<1>6. ASSUME NEW n \in 0..3, Holds(n) PROVE Holds(n + 1)
  <2> DEFINE c == CategoryOrder[n + 1]
  <2>1. c \in Range(CategoryOrder) /\ \A k \in 1..n : CategoryOrder[k] # c
    <3>1. /\ CategoryOrder[1] = "general" /\ CategoryOrder[2] = "validation"
          /\ CategoryOrder[3] = "performance" /\ CategoryOrder[4] = "device_address_binding"
      BY DEF CategoryOrder
    <3>2. ASSUME NEW i \in 1..4
          PROVE  /\ CategoryOrder[i] \in Range(CategoryOrder)
                 /\ \A j \in 1..4 : j < i => CategoryOrder[j] # CategoryOrder[i]
      <4>1. i = 1 \/ i = 2 \/ i = 3 \/ i = 4
        OBVIOUS
      <4>2. ASSUME NEW j \in 1..4, j < i
            PROVE  j = 1 \/ (j = 2 /\ i # 2 /\ i # 1) \/ (j = 3 /\ i = 4)
        BY <4>2
      <4>3. CategoryOrder[i] \in Range(CategoryOrder)
        BY <1>1 DEF Range
      <4>4. ASSUME NEW j \in 1..4, j < i PROVE CategoryOrder[j] # CategoryOrder[i]
        <5>1. j = 1 \/ (j = 2 /\ i # 2 /\ i # 1) \/ (j = 3 /\ i = 4)
          BY <4>2, <4>4
        <5>2. j # i
          BY <4>4
        <5> QED BY <3>1, <4>1, <5>1, <5>2
      <4> QED BY <4>3, <4>4
    <3>3. n + 1 \in 1..4 /\ \A k \in 1..n : k \in 1..4 /\ k < n + 1
      OBVIOUS
    <3> QED BY <3>2, <3>3
  <2>2. {CategoryOrder[k] : k \in 1..n + 1} = {CategoryOrder[k] : k \in 1..n} \cup {c}
    OBVIOUS
  <2>3. taken[n + 1] = With(taken[n], n + 1)
    <3>1. n + 1 \in 0..4 /\ n + 1 # 0 /\ (n + 1) - 1 = n
      OBVIOUS
    <3> HIDE DEF With
    <3> QED BY <1>3, <3>1
  <2>4. c \notin Range(taken[n])
    BY <1>6, <2>1
  <2>5. CASE c \in types
    <3>1. taken[n + 1] = Append(taken[n], c)
      BY <2>3, <2>5
    <3> HIDE DEF c
    <3>2. taken[n] \in Seq(Range(CategoryOrder)) /\ IsInjective(taken[n]) /\ c \in Range(CategoryOrder)
      BY <1>6, <2>1
    <3>3. /\ taken[n + 1] \in Seq(Range(CategoryOrder)) /\ IsInjective(taken[n + 1])
          /\ Range(taken[n + 1]) = Range(taken[n]) \cup {c}
      BY <2>4, <3>1, <3>2, CategoryAdded
    <3>4. Range(taken[n]) = types \cap {CategoryOrder[k] : k \in 1..n}
      BY <1>6
    <3>5. Range(taken[n + 1]) = types \cap {CategoryOrder[k] : k \in 1..n + 1}
      BY <2>2, <2>5, <3>3, <3>4
    <3> QED BY <3>3, <3>5
  <2>6. CASE c \notin types
    <3>1. taken[n + 1] = taken[n]
      BY <2>3, <2>6
    <3> HIDE DEF c
    <3> QED BY <1>6, <2>2, <2>6, <3>1
  <2> QED BY <2>5, <2>6
<1>7. Holds(4)
  <2>1. 0 + 1 = 1 /\ 1 + 1 = 2 /\ 2 + 1 = 3 /\ 3 + 1 = 4
    OBVIOUS
  <2> HIDE DEF Holds
  <2>2. Holds(1)
    BY <1>5, <1>6, <2>1
  <2>3. Holds(2)
    BY <1>6, <2>1, <2>2
  <2>4. Holds(3)
    BY <1>6, <2>1, <2>3
  <2> QED BY <1>6, <2>1, <2>4
<1>8. Range(CategoryOrder) = {CategoryOrder[k] : k \in 1..4}
  BY <1>1 DEF Range
<1> QED BY <1>4, <1>7, <1>8

\* What a sink was last given is the message, whole.
EventInv ==
    delivered # NoEvent =>
        /\ Mappable(delivered.message.types)
        /\ delivered.event = Event(delivered.message)

LEMMA EventsAreWhole == Spec => []EventInv
<1>1. Init => EventInv
  BY DEF Init, EventInv
<1>2. ASSUME EventInv, [Next]_vars PROVE EventInv'
  <2>1. ASSUME delivered' = NoEvent \/ delivered' = delivered PROVE EventInv'
    BY <1>2, <2>1 DEF EventInv
  <2>2. ASSUME NEW n \in DOMAIN vulkan, NEW message \in Messages, Callback(n, message)
        PROVE  EventInv'
    <3>1. CASE delivered' = NoEvent
      BY <2>1, <3>1
    <3>2. CASE /\ Translated(message)
               /\ delivered' = [sink |-> sinkOf[vulkan[n].userData], instance |-> n,
                                message |-> message, event |-> Event(message)]
      <4>1. Mappable(message.types)
        BY <3>2 DEF Translated
      <4>2. delivered'.message = message /\ delivered'.event = Event(message)
        BY <3>2
      <4> QED BY <4>1, <4>2 DEF EventInv
    <3> QED BY <2>2, <3>1, <3>2 DEF Callback
  <2>3. CASE Query \/ UNCHANGED vars
    BY <2>1, <2>3 DEF Query, vars
  <2>4. ASSUME NEW d \in Descriptions, ResolveQueried(d) PROVE EventInv'
    BY <2>1, <2>4 DEF ResolveQueried, Resolve
  <2>5. ASSUME NEW d \in Descriptions, NEW c \in Snapshots, Resolve(d, c) PROVE EventInv'
    BY <2>1, <2>5 DEF Resolve
  <2>6. ASSUME Quiet PROVE EventInv'
    BY <2>1, <2>6 DEF Quiet
  <2>7. CASE MovePlanAway \/ MakeCallbackState \/ CallNative \/ NativeReturns \/ MakeMessenger
             \/ MakeImpl \/ Unwind
    BY <2>6, <2>7 DEF MovePlanAway, MakeCallbackState, CallNative, NativeReturns, MakeMessenger, MakeImpl, Unwind
  <2>8. CASE DestroyMessenger \/ DestroyNative \/ FreeCallbackState \/ CloseContext
    BY <2>6, <2>8 DEF DestroyMessenger, DestroyNative, FreeCallbackState, CloseContext
  <2>9. ASSUME NEW i \in Instances, NEW sink \in Sinks \cup {NoSink}, Create(i, sink)
        PROVE  EventInv'
    BY <2>6, <2>9 DEF Create
  <2>10. ASSUME NEW i \in Instances, NEW j \in Instances, MoveInstance(i, j) \/ DestroyInstance(i)
         PROVE  EventInv'
    BY <2>6, <2>10 DEF MoveInstance, DestroyInstance
  <2> QED BY <1>2, <2>2, <2>3, <2>4, <2>5, <2>7, <2>8, <2>9, <2>10 DEF Next
<1> QED BY <1>1, <1>2, PTL DEF Spec

-----------------------------------------------------------------------------
(* Plans                                                                   *)

\* Every non-empty set of naturals has a least one.
LEMMA LeastNatural ==
    ASSUME NEW S \in SUBSET Nat, S # {}
    PROVE  \E m \in S : \A n \in S : m <= n
<1>1. PICK m \in S : \A n \in S : ~(<<n, m>> \in OpToRel(<, Nat))
  BY NatLessThanWellFounded, WFMin
<1>2. ASSUME NEW n \in S PROVE m <= n
  <2>1. ~(n < m)
    BY <1>1 DEF OpToRel
  <2> QED BY <2>1
<1> QED BY <1>2

(* Induction over the naturals, of a set instead of a predicate.            *)
LEMMA NaturalsByInduction ==
    ASSUME NEW S, 0 \in S, \A n \in Nat : n \in S => n + 1 \in S
    PROVE  \A n \in Nat : n \in S
<1> SUFFICES ASSUME Nat \ S # {} PROVE FALSE
  OBVIOUS
<1>1. PICK m \in Nat \ S : \A n \in Nat \ S : m <= n
  BY LeastNatural
<1>2. m # 0 /\ m - 1 \in Nat /\ m - 1 \notin Nat \ S
  BY <1>1
<1>3. (m - 1) + 1 \in S
  BY <1>2
<1> QED BY <1>1, <1>3

Ascends(names) == \A j, k \in DOMAIN names : j < k => names[j] < names[k]

(* Sorting loses and repeats no name.                                       *)
LEMMA SortedIs ==
    ASSUME NEW S \in SUBSET Nat, IsFiniteSet(S)
    PROVE  Sorted(S) \in Seq(Nat) /\ Range(Sorted(S)) = S /\ Ascends(Sorted(S))
<1> DEFINE n == Cardinality(S)
           Upto(a) == {b \in S : b <= a}
           P == [a \in S |-> Cardinality(Upto(a))]
           o == Sorted(S)
<1>1. n \in Nat
  BY FS_CardinalityType
<1>2. ASSUME NEW a \in S
      PROVE  IsFiniteSet(Upto(a)) /\ Cardinality(Upto(a)) \in Nat /\ P[a] \in 1..n
  <2>1. Upto(a) \subseteq S /\ a \in Upto(a)
    OBVIOUS
  <2> HIDE DEF Upto, n
  <2>2. IsFiniteSet(Upto(a)) /\ Cardinality(Upto(a)) <= n
    BY <2>1, FS_Subset DEF n
  <2>3. Cardinality(Upto(a)) \in Nat /\ Cardinality(Upto(a)) # 0
    BY <2>1, <2>2, FS_CardinalityType, FS_EmptySet
  <2> QED BY <1>1, <2>2, <2>3
<1>3. ASSUME NEW a \in S, NEW b \in S, a < b PROVE P[a] < P[b]
  <2>1. Upto(a) \cup {b} \subseteq Upto(b) /\ b \notin Upto(a)
    <3>1. a \in Nat /\ b \in Nat /\ b <= b /\ ~(b <= a)
      BY <1>3
    <3>2. \A x \in S : x <= a => x <= b
      BY <1>3
    <3> QED BY <3>1, <3>2
  <2>2. Cardinality(Upto(a) \cup {b}) = Cardinality(Upto(a)) + 1
    <3> HIDE DEF Upto
    <3> QED BY <1>2, <2>1, FS_AddElement
  <2>3. Cardinality(Upto(a) \cup {b}) <= Cardinality(Upto(b))
    <3> HIDE DEF Upto
    <3> QED BY <1>2, <2>1, FS_Subset
  <2>4. Cardinality(Upto(a)) \in Nat /\ Cardinality(Upto(b)) \in Nat
    BY <1>2
  <2> HIDE DEF Upto
  <2> QED BY <2>2, <2>3, <2>4
<1>4. P \in Injection(S, 1..n)
  <2>1. P \in [S -> 1..n]
    BY <1>2
  <2>2. \A a, b \in S : P[a] = P[b] => a = b
    <3> HIDE DEF P
    <3>1. \A a \in S : P[a] \in Nat
      BY <2>1, <1>1
    <3> QED BY <1>3, <3>1
  <2> HIDE DEF P
  <2> QED BY <2>1, <2>2 DEF Injection, IsInjective
<1>5. P \in Surjection(S, 1..n)
  <2>1. IsFiniteSet(1..n) /\ Cardinality(1..n) = n
    <3> HIDE DEF n
    <3> QED BY <1>1, FS_Interval
  <2> HIDE DEF P
  <2> QED BY <1>4, <2>1, FS_Injection
<1>6. \A k \in 1..n : \E a \in S : P[a] = k
  <2> HIDE DEF P
  <2> QED BY <1>5 DEF Surjection, Range
<1>7. o = [k \in 1..n |-> CHOOSE a \in S : Cardinality(Upto(a)) = k]
  BY DEF Sorted
<1>8. ASSUME NEW k \in 1..n PROVE o[k] \in S /\ P[o[k]] = k
  <2>1. \E a \in S : Cardinality(Upto(a)) = k
    BY <1>6
  <2>2. o[k] = CHOOSE a \in S : Cardinality(Upto(a)) = k
    BY <1>7
  <2> HIDE DEF Upto, o
  <2>3. o[k] \in S /\ Cardinality(Upto(o[k])) = k
    BY <2>1, <2>2
  <2> QED BY <2>3
<1>9. o \in Seq(Nat) /\ DOMAIN o = 1..n
  <2>1. o \in [1..n -> Nat]
    BY <1>7, <1>8
  <2> HIDE DEF o, n
  <2> QED BY <1>1, <2>1
<1> HIDE DEF o, P, n
<1>10. Range(o) = S
  <2>1. ASSUME NEW a \in S PROVE a \in Range(o)
    <3>1. P[a] \in 1..n
      BY <1>2
    <3>2. o[P[a]] = a
      BY <1>4, <1>8, <3>1 DEF Injection, IsInjective
    <3> QED BY <1>9, <3>1, <3>2 DEF Range
  <2> QED BY <1>8, <1>9, <2>1 DEF Range
<1>11. ASSUME NEW j \in 1..n, NEW k \in 1..n, j < k PROVE o[j] < o[k]
  <2>1. o[j] # o[k] /\ ~(o[k] < o[j]) /\ o[j] \in Nat /\ o[k] \in Nat
    <3>1. P[o[j]] = j /\ P[o[k]] = k /\ j \in Nat /\ k \in Nat /\ o[j] \in S /\ o[k] \in S
      BY <1>1, <1>8
    <3>2. o[j] # o[k] /\ ~(o[k] < o[j])
      <4>1. o[j] # o[k]
        BY <1>11, <3>1
      <4>2. ASSUME o[k] < o[j] PROVE FALSE
        <5>1. k < j
          BY <1>3, <3>1, <4>2
        <5> QED BY <1>11, <3>1, <5>1
      <4> QED BY <4>1, <4>2
    <3> QED BY <3>1, <3>2
  <2> QED BY <2>1
<1> QED BY <1>9, <1>10, <1>11 DEF Ascends, o

(* The names of a list.                                                     *)
LEMMA NamesAreFinite ==
    ASSUME NEW s \in Seq(Nat)
    PROVE  Range(s) \in SUBSET Nat /\ IsFiniteSet(Range(s))
<1>1. DOMAIN s = 1..Len(s) /\ Len(s) \in Nat /\ \A k \in DOMAIN s : s[k] \in Nat
  OBVIOUS
<1>2. s \in Surjection(1..Len(s), Range(s))
  <2>1. s \in [1..Len(s) -> Range(s)]
    BY <1>1 DEF Range
  <2> QED BY <1>1, <2>1 DEF Surjection, Range
<1>3. IsFiniteSet(1..Len(s))
  BY <1>1, FS_Interval
<1> QED BY <1>1, <1>2, <1>3, FS_Surjection DEF Range

(* The names of two lists.                                                  *)
LEMMA NamesOfBoth ==
    ASSUME NEW s \in Seq(Nat), NEW t \in Seq(Nat)
    PROVE  Range(s \o t) = Range(s) \cup Range(t)
<1> DEFINE m == Len(s)
           n == Len(t)
           both == s \o t
<1>1. /\ m \in Nat /\ n \in Nat /\ DOMAIN s = 1..m /\ DOMAIN t = 1..n /\ DOMAIN both = 1..m + n
      /\ \A k \in 1..m + n : both[k] = IF k <= m THEN s[k] ELSE t[k - m]
  OBVIOUS
<1> HIDE DEF m, n, both
<1>2. ASSUME NEW k \in 1..m + n PROVE both[k] \in Range(s) \cup Range(t)
  <2>1. CASE k <= m
    <3>1. k \in 1..m
      BY <1>1, <2>1
    <3> QED BY <1>1, <2>1, <3>1 DEF Range
  <2>2. CASE ~(k <= m)
    <3>1. k - m \in 1..n
      BY <1>1, <2>2
    <3> QED BY <1>1, <2>2, <3>1 DEF Range
  <2> QED BY <2>1, <2>2
<1>3. ASSUME NEW k \in 1..m PROVE s[k] \in Range(both)
  <2>1. k \in 1..m + n /\ k <= m
    BY <1>1
  <2> QED BY <1>1, <2>1 DEF Range
<1>4. ASSUME NEW k \in 1..n PROVE t[k] \in Range(both)
  <2>1. m + k \in 1..m + n /\ ~(m + k <= m) /\ (m + k) - m = k
    BY <1>1
  <2>2. both[m + k] = t[k]
    BY <1>1, <2>1
  <2> QED BY <1>1, <2>1, <2>2 DEF Range
<1> QED BY <1>1, <1>2, <1>3, <1>4 DEF Range, both

-----------------------------------------------------------------------------
\* The requirements of the names so far, none of them derived.
Gathers(r, required, optional) ==
    /\ r = [error |-> r.error, entries |-> r.entries]
    /\ r.error \in {"success", "invalid_description", "contradictory_requirements"}
    /\ r.error = "success" <=>
        {Empty, Nul} \cap (required \cup optional) = {} /\ required \cap optional = {}
    /\ r.error = "contradictory_requirements" => required \cap optional # {}
    /\ r.error = "success" =>
        r.entries = [n \in required \cup optional |->
                        [strength |-> IF n \in required THEN "required" ELSE "optional",
                         derived |-> FALSE]]

(* One more explicit requirement.                                           *)
LEMMA AddRequirementIs ==
    ASSUME NEW r, NEW required, NEW optional, Gathers(r, required, optional), NEW name
    PROVE  /\ Gathers(AddRequirement(r, name, "required", FALSE), required \cup {name}, optional)
           /\ Gathers(AddRequirement(r, name, "optional", FALSE), required, optional \cup {name})
<1> DEFINE Entry(strength) == [strength |-> strength, derived |-> FALSE]
           Now(R, O) == [n \in R \cup O |-> Entry(IF n \in R THEN "required" ELSE "optional")]
<1>1. ASSUME NEW strength \in {"required", "optional"},
             NEW R, R = IF strength = "required" THEN required \cup {name} ELSE required,
             NEW O, O = IF strength = "optional" THEN optional \cup {name} ELSE optional
      PROVE  Gathers(AddRequirement(r, name, strength, FALSE), R, O)
  <2> DEFINE new == AddRequirement(r, name, strength, FALSE)
             old == r.entries[name]
  <2>1. /\ new = IF r.error # "success" THEN r
                 ELSE IF name \in {Nul, Empty} THEN [r EXCEPT !.error = "invalid_description"]
                 ELSE IF name \notin DOMAIN r.entries
                   THEN [r EXCEPT !.entries = Emplaced(@, name, Entry(strength))]
                 ELSE IF old.strength = strength
                   THEN [r EXCEPT !.entries[name] = [strength |-> strength,
                                                     derived |-> old.derived /\ FALSE]]
                 ELSE IF ~old.derived /\ FALSE /\ old.strength = "required" THEN r
                 ELSE IF old.derived /\ TRUE /\ strength = "required"
                   THEN [r EXCEPT !.entries[name] = Entry(strength)]
                 ELSE [r EXCEPT !.error = "contradictory_requirements"]
    BY DEF AddRequirement
  <2>2. R \cup O = required \cup optional \cup {name} /\ required \subseteq R /\ optional \subseteq O
    BY <1>1
  <2>3. r = [error |-> r.error, entries |-> r.entries]
    BY DEF Gathers
  <2> HIDE DEF new
  <2>4. CASE r.error # "success"
    <3>1. new = r
      BY <2>1, <2>4
    <3>2. {Empty, Nul} \cap (R \cup O) # {} \/ R \cap O # {}
      BY <2>2, <2>4 DEF Gathers
    <3>3. required \cap optional # {} => R \cap O # {}
      BY <2>2
    <3> QED BY <2>4, <3>1, <3>2, <3>3 DEF Gathers, new
  <2>5. CASE r.error = "success" /\ name \in {Nul, Empty}
    <3>1. new = [error |-> "invalid_description", entries |-> r.entries]
      BY <2>1, <2>3, <2>5
    <3>2. {Empty, Nul} \cap (R \cup O) # {}
      BY <2>2, <2>5
    <3>3. new.error = "invalid_description" /\ new = [error |-> new.error, entries |-> new.entries]
      BY <3>1
    <3>4. Gathers(new, R, O)
      BY <3>2, <3>3 DEF Gathers
    <3> QED BY <3>4 DEF new
  <2>6. CASE r.error = "success" /\ name \notin {Nul, Empty}
    <3>1. /\ {Empty, Nul} \cap (required \cup optional) = {} /\ required \cap optional = {}
          /\ r.entries = Now(required, optional)
      BY <2>6 DEF Gathers
    <3>2. {Empty, Nul} \cap (R \cup O) = {}
      BY <2>2, <2>6, <3>1
    <3>3. CASE name \notin required \cup optional
      <4>1. new = [error |-> "success", entries |-> Emplaced(r.entries, name, Entry(strength))]
        BY <2>1, <2>3, <2>6, <3>1, <3>3
      <4>2. R \cap O = {}
        BY <1>1, <3>1, <3>3
      <4>3. Emplaced(r.entries, name, Entry(strength)) = Now(R, O)
        <5>1. \A n \in required \cup optional : n \in R <=> n \in required
          BY <1>1, <3>3
        <5>2. name \in R <=> strength = "required"
          BY <1>1, <3>3
        <5>3. Entry(IF name \in R THEN "required" ELSE "optional") = Entry(strength)
          BY <1>1, <5>2
        <5>4. DOMAIN r.entries = required \cup optional
          BY <3>1
        <5>5. \A n \in required \cup optional :
                 r.entries[n] = Entry(IF n \in R THEN "required" ELSE "optional")
          BY <3>1, <5>1
        <5> HIDE DEF Entry
        <5> QED BY <2>2, <3>3, <5>3, <5>4, <5>5 DEF Emplaced
      <4>4. /\ new.error = "success" /\ new = [error |-> new.error, entries |-> new.entries]
            /\ new.entries = Now(R, O)
        BY <4>1, <4>3
      <4>5. Gathers(new, R, O)
        BY <3>2, <4>2, <4>4 DEF Gathers
      <4> QED BY <4>5 DEF new
    <3>4. CASE name \in (IF strength = "required" THEN required ELSE optional)
      <4>1. R = required /\ O = optional
        BY <1>1, <3>4
      <4>2. old = Entry(strength)
        BY <1>1, <3>1, <3>4
      <4>3. old.strength = strength /\ old.derived = FALSE /\ name \in DOMAIN r.entries
        BY <1>1, <3>1, <3>4, <4>2
      <4>4. new = [r EXCEPT !.entries[name] = Entry(strength)]
        <5>1. (old.derived /\ FALSE) = FALSE
          OBVIOUS
        <5> QED BY <2>1, <2>6, <4>3, <5>1
      <4>5. [r.entries EXCEPT ![name] = Entry(strength)] = r.entries
        BY <3>1, <4>2, <4>3
      <4>6. new = r
        BY <2>3, <4>4, <4>5
      <4> QED BY <4>1, <4>6 DEF new
    <3>5. CASE name \in (IF strength = "required" THEN optional ELSE required)
      <4>1. R \cap O # {}
        BY <1>1, <3>5
      <4>2. name \in DOMAIN r.entries /\ old.strength # strength /\ old.derived = FALSE
        BY <1>1, <3>1, <3>5
      <4>3. new = [error |-> "contradictory_requirements", entries |-> r.entries]
        BY <2>1, <2>3, <2>6, <4>2
      <4>4. /\ new.error = "contradictory_requirements"
            /\ new = [error |-> new.error, entries |-> new.entries]
        BY <4>3
      <4>5. Gathers(new, R, O)
        BY <4>1, <4>4 DEF Gathers
      <4> QED BY <4>5 DEF new
    <3> QED BY <1>1, <3>3, <3>4, <3>5
  <2> QED BY <2>4, <2>5, <2>6
<1> QED BY <1>1

(* One list of explicit requirements.                                       *)
LEMMA AddAllIs ==
    ASSUME NEW r, NEW required, NEW optional, Gathers(r, required, optional),
           NEW names \in Seq(Nat), NEW strength \in {"required", "optional"}
    PROVE  Gathers(AddAll(r, names, strength),
                   IF strength = "required" THEN required \cup Range(names) ELSE required,
                   IF strength = "optional" THEN optional \cup Range(names) ELSE optional)
<1> DEFINE Step(q, n) == AddRequirement(q, names[n], strength, FALSE)
           Is(g, m) == g = [n \in 0..m |-> IF n = 0 THEN r ELSE Step(g[n - 1], n)]
           added == CHOOSE g : Is(g, Len(names))
           First(n) == {names[k] : k \in 1..n}
           R(n) == IF strength = "required" THEN required \cup First(n) ELSE required
           O(n) == IF strength = "optional" THEN optional \cup First(n) ELSE optional
<1>1. \E g : Is(g, Len(names))
  <2> DEFINE Defined == {m \in Nat : \E g : Is(g, m)}
  <2>1. 0 \in Defined
    <3>1. \A n \in 0..0 : n = 0
      OBVIOUS
    <3>2. Is([n \in 0..0 |-> r], 0)
      BY <3>1
    <3> QED BY <3>2
  <2>2. ASSUME NEW m \in Nat, m \in Defined PROVE m + 1 \in Defined
    <3>1. PICK g : Is(g, m)
      BY <2>2
    <3> DEFINE h == [n \in 0..m + 1 |-> IF n <= m THEN g[n] ELSE Step(g[m], n)]
    <3>2. \A n \in 0..m : h[n] = g[n]
      OBVIOUS
    <3>4. \A n \in 0..m : g[n] = IF n = 0 THEN r ELSE Step(g[n - 1], n)
      BY <3>1
    <3> HIDE DEF Step
    <3>3. h[m + 1] = Step(g[m], m + 1)
      <4>1. m + 1 \in 0..m + 1 /\ ~(m + 1 <= m)
        OBVIOUS
      <4> QED BY <4>1
    <3>5. ASSUME NEW n \in 0..m + 1 PROVE h[n] = IF n = 0 THEN r ELSE Step(h[n - 1], n)
      <4>1. CASE n = m + 1
        <5>1. n # 0 /\ n - 1 = m /\ h[n - 1] = g[m]
          BY <3>2, <4>1
        <5> QED BY <3>3, <4>1, <5>1
      <4>2. CASE n \in 0..m
        <5>1. n # 0 => h[n - 1] = g[n - 1]
          BY <3>2, <4>2
        <5> QED BY <3>2, <3>4, <4>2, <5>1
      <4> QED BY <4>1, <4>2
    <3>6. Is(h, m + 1)
      BY <3>5
    <3> HIDE DEF Is, h
    <3> QED BY <3>6
  <2> HIDE DEF Defined
  <2>3. Len(names) \in Defined
    BY <2>1, <2>2, NaturalsByInduction
  <2> QED BY <2>3 DEF Defined
<1>2. Is(added, Len(names))
  BY <1>1
<1>3. AddAll(r, names, strength) = added[Len(names)]
  BY DEF AddAll
<1> HIDE DEF added
<1> DEFINE Good == {n \in Nat : n <= Len(names) => Gathers(added[n], R(n), O(n))}
<1>4. 0 \in Good
  <2>1. added[0] = r
    BY <1>2
  <2>2. R(0) = required /\ O(0) = optional
    OBVIOUS
  <2> HIDE DEF R, O
  <2> QED BY <2>1, <2>2
<1>5. ASSUME NEW n \in Nat, n \in Good PROVE n + 1 \in Good
  <2> SUFFICES ASSUME n + 1 <= Len(names) PROVE Gathers(added[n + 1], R(n + 1), O(n + 1))
    OBVIOUS
  <2> DEFINE k == n + 1
  <2>1. k \in 0..Len(names) /\ k # 0 /\ k - 1 = n /\ k \in DOMAIN names
    OBVIOUS
  <2>2. Gathers(added[n], R(n), O(n))
    BY <1>5
  <2>3. First(k) = First(n) \cup {names[k]}
    OBVIOUS
  <2> HIDE DEF k
  <2>4. added[k] = AddRequirement(added[n], names[k], strength, FALSE)
    BY <1>2, <2>1
  <2>5. CASE strength = "required"
    <3>1. R(k) = R(n) \cup {names[k]} /\ O(k) = O(n)
      BY <2>3, <2>5
    <3> HIDE DEF R, O
    <3>2. Gathers(AddRequirement(added[n], names[k], "required", FALSE), R(n) \cup {names[k]}, O(n))
      BY <2>2, AddRequirementIs
    <3>3. Gathers(added[k], R(k), O(k))
      BY <2>4, <2>5, <3>1, <3>2
    <3> QED BY <3>3 DEF k
  <2>6. CASE strength = "optional"
    <3>1. O(k) = O(n) \cup {names[k]} /\ R(k) = R(n)
      BY <2>3, <2>6
    <3> HIDE DEF R, O
    <3>2. Gathers(AddRequirement(added[n], names[k], "optional", FALSE), R(n), O(n) \cup {names[k]})
      BY <2>2, AddRequirementIs
    <3>3. Gathers(added[k], R(k), O(k))
      BY <2>4, <2>6, <3>1, <3>2
    <3> QED BY <3>3 DEF k
  <2> QED BY <2>5, <2>6
<1> HIDE DEF Good
<1>6. Len(names) \in Good
  BY <1>4, <1>5, NaturalsByInduction
<1>7. Gathers(added[Len(names)], R(Len(names)), O(Len(names)))
  BY <1>6 DEF Good
<1>8. First(Len(names)) = Range(names)
  BY DEF Range
<1> QED BY <1>3, <1>7, <1>8

(* Both lists.                                                              *)
LEMMA ExplicitIs ==
    ASSUME NEW required \in Seq(Nat), NEW optional \in Seq(Nat)
    PROVE  Gathers(Explicit(required, optional), Range(required), Range(optional))
<1>1. Gathers(NoEntries, {}, {})
  <2>1. [n \in {} |-> [strength |-> IF n \in {} THEN "required" ELSE "optional",
                       derived |-> FALSE]] = <<>>
    OBVIOUS
  <2> QED BY <2>1 DEF Gathers, NoEntries
<1> DEFINE first == AddAll(NoEntries, required, "required")
<1>2. Gathers(first, {} \cup Range(required), {})
  BY <1>1, AddAllIs
<1>3. Gathers(first, Range(required), {})
  <2>1. {} \cup Range(required) = Range(required)
    OBVIOUS
  <2> HIDE DEF first
  <2> QED BY <1>2, <2>1
<1> HIDE DEF first
<1>4. Gathers(AddAll(first, optional, "optional"), Range(required), {} \cup Range(optional))
  BY <1>3, AddAllIs
<1>5. {} \cup Range(optional) = Range(optional)
  OBVIOUS
<1> QED BY <1>4, <1>5 DEF Explicit, first

\* What the map holds of names that are required, optional and explicit.
Tells(entries, required, optional, explicit) ==
    entries = [n \in required \cup optional |->
                [strength |-> IF n \in required THEN "required" ELSE "optional",
                 derived |-> n \notin explicit]]

(* The layers, none of them derived.                                        *)
LEMMA LayersAre ==
    ASSUME NEW d \in Descriptions
    PROVE  LET R == Range(d.required_layers)
               O == Range(d.optional_layers)
           IN  /\ Layers(d).error = "success" <=> {Empty, Nul} \cap (R \cup O) = {} /\ R \cap O = {}
               /\ Layers(d).error = "contradictory_requirements" => R \cap O # {}
               /\ Layers(d).error = "success" => Tells(Layers(d).entries, R, O, R \cup O)
<1> DEFINE R == Range(d.required_layers)
           O == Range(d.optional_layers)
<1>1. Gathers(Layers(d), R, O)
  BY InstanceAssumption, ExplicitIs DEF Layers
<1> HIDE DEF R, O
<1>2. Layers(d).error = "success" => Tells(Layers(d).entries, R, O, R \cup O)
  <2>1. \A n \in R \cup O : FALSE = (n \notin R \cup O)
    OBVIOUS
  <2> QED BY <1>1, <2>1 DEF Gathers, Tells
<1> QED BY <1>1, <1>2 DEF Gathers, R, O

(* The extensions, with what the mode of Debug Utils adds.                  *)
LEMMA ExtensionsAre ==
    ASSUME NEW d \in Descriptions
    PROVE  LET R == Range(d.required_extensions)
               O == Range(d.optional_extensions)
               explicit == Explicit(d.required_extensions, d.optional_extensions)
               required == Wanted(d, "required")
               optional == Wanted(d, "optional")
           IN  /\ explicit.error = "success" <=>
                    {Empty, Nul} \cap (R \cup O) = {} /\ R \cap O = {}
               /\ explicit.error = "contradictory_requirements" => R \cap O # {}
               /\ R \subseteq required /\ O \subseteq optional
               /\ explicit.error = "success" =>
                    /\ Extensions(d).error = "success" <=> required \cap O = {}
                    /\ Extensions(d).error = "success"
                        => Tells(Extensions(d).entries, required, optional, R \cup O)
<1> DEFINE R == Range(d.required_extensions)
           O == Range(d.optional_extensions)
           explicit == Explicit(d.required_extensions, d.optional_extensions)
           required == Wanted(d, "required")
           optional == Wanted(d, "optional")
           mode == d.debug_utils
           all == Extensions(d)
<1>1. Gathers(explicit, R, O)
  BY InstanceAssumption, ExplicitIs
<1>2. /\ mode \in {"disabled", "optional", "required"}
      /\ required = R \cup (IF mode = "required" THEN {DebugUtils} ELSE {})
      /\ optional = O \cup (IF mode = "optional" THEN {DebugUtils} ELSE {})
  BY InstanceAssumption DEF Wanted
<1>3. all = IF mode = "disabled" THEN explicit ELSE AddRequirement(explicit, DebugUtils, mode, TRUE)
  BY DEF Extensions
<1> HIDE DEF R, O, explicit, required, optional, mode, all
<1>4. ASSUME explicit.error = "success"
      PROVE  /\ all.error = "success" <=> required \cap O = {}
             /\ all.error = "success" => Tells(all.entries, required, optional, R \cup O)
  <2> DEFINE entries == explicit.entries
             old == entries[DebugUtils]
             Entry(n) == [strength |-> IF n \in required THEN "required" ELSE "optional",
                          derived |-> n \notin R \cup O]
  <2>1. /\ R \cap O = {} /\ explicit = [error |-> "success", entries |-> entries]
        /\ entries = [n \in R \cup O |-> [strength |-> IF n \in R THEN "required" ELSE "optional",
                                          derived |-> FALSE]]
    BY <1>1, <1>4 DEF Gathers
  <2>2. DebugUtils \notin {Nul, Empty}
    BY DEF DebugUtils, Nul, Empty
  <2>3. ASSUME required \cup optional = R \cup O,
               \A n \in R \cup O : n \in required <=> n \in R
        PROVE  required \cap O = {} /\ Tells(entries, required, optional, R \cup O)
    <3>1. \A n \in R \cup O : FALSE = (n \notin R \cup O)
      OBVIOUS
    <3> QED BY <2>1, <2>3, <3>1 DEF Tells
  <2>4. CASE mode = "disabled"
    BY <1>2, <1>3, <1>4, <2>3, <2>4
  <2>5. CASE mode # "disabled" /\ DebugUtils \notin R \cup O
    <3> DEFINE entry == [strength |-> mode, derived |-> TRUE]
    <3>1. all = [explicit EXCEPT !.entries = Emplaced(@, DebugUtils, entry)]
      BY <1>3, <1>4, <2>1, <2>2, <2>5 DEF AddRequirement
    <3>2. all.error = "success" /\ all.entries = Emplaced(entries, DebugUtils, entry)
      BY <2>1, <3>1
    <3>3. required \cup optional = R \cup O \cup {DebugUtils} /\ required \cap O = {}
      BY <1>2, <2>1, <2>5
    <3>4. entry = Entry(DebugUtils)
      <4>1. DebugUtils \in required <=> mode = "required"
        BY <1>2, <2>5
      <4>2. (DebugUtils \notin R \cup O) = TRUE
        BY <2>5
      <4> QED BY <1>2, <2>5, <4>1, <4>2
    <3>5. \A n \in R \cup O : entries[n] = Entry(n)
      <4>1. \A n \in R \cup O : n \in R <=> n \in required
        BY <1>2, <2>5
      <4>2. \A n \in R \cup O : FALSE = (n \notin R \cup O)
        OBVIOUS
      <4> QED BY <2>1, <4>1, <4>2
    <3>6. DOMAIN entries = R \cup O
      BY <2>1
    <3> HIDE DEF entries, entry, Entry
    <3>7. Emplaced(entries, DebugUtils, entry) = [n \in required \cup optional |-> Entry(n)]
      BY <2>5, <3>3, <3>4, <3>5, <3>6 DEF Emplaced
    <3> QED BY <3>2, <3>3, <3>7 DEF Tells, Entry
  <2>6. CASE mode # "disabled" /\ DebugUtils \in R
    <3>1. old = [strength |-> "required", derived |-> FALSE] /\ DebugUtils \in DOMAIN entries
      BY <2>1, <2>6
    <3>2. all = explicit
      <4>1. CASE mode = "required"
        <5>1. all = [explicit EXCEPT !.entries[DebugUtils] =
                        [strength |-> mode, derived |-> old.derived /\ TRUE]]
          <6>1. old.strength = mode
            BY <3>1, <4>1
          <6> HIDE DEF entries
          <6> QED BY <1>3, <1>4, <2>2, <3>1, <4>1, <6>1 DEF AddRequirement, entries
        <5>2. (old.derived /\ TRUE) = FALSE /\ mode = "required"
          BY <3>1, <4>1
        <5>3. [entries EXCEPT ![DebugUtils] = [strength |-> "required", derived |-> FALSE]] = entries
          BY <2>1, <3>1
        <5> QED BY <2>1, <5>1, <5>2, <5>3
      <4>2. CASE mode = "optional"
        BY <1>3, <1>4, <2>1, <2>2, <3>1, <4>2 DEF AddRequirement
      <4> QED BY <1>2, <2>6, <4>1, <4>2
    <3>3. /\ required \cup optional = R \cup O
          /\ \A n \in R \cup O : n \in required <=> n \in R
      BY <1>2, <2>6
    <3> QED BY <1>4, <2>3, <3>2, <3>3
  <2>7. CASE mode = "optional" /\ DebugUtils \in O
    <3>1. old = [strength |-> "optional", derived |-> FALSE] /\ DebugUtils \in DOMAIN entries
      BY <2>1, <2>7
    <3>2. all = explicit
      <4>1. all = [explicit EXCEPT !.entries[DebugUtils] =
                      [strength |-> mode, derived |-> old.derived /\ TRUE]]
        <5>1. old.strength = mode
          BY <2>7, <3>1
        <5> HIDE DEF entries
        <5> QED BY <1>3, <1>4, <2>2, <2>7, <3>1, <5>1 DEF AddRequirement, entries
      <4>2. (old.derived /\ TRUE) = FALSE /\ mode = "optional"
        BY <2>7, <3>1
      <4>3. [entries EXCEPT ![DebugUtils] = [strength |-> "optional", derived |-> FALSE]] = entries
        BY <2>1, <3>1
      <4> QED BY <2>1, <4>1, <4>2, <4>3
    <3>3. /\ required \cup optional = R \cup O
          /\ \A n \in R \cup O : n \in required <=> n \in R
      BY <1>2, <2>7
    <3> QED BY <1>4, <2>3, <3>2, <3>3
  <2>8. CASE mode = "required" /\ DebugUtils \in O
    <3>1. old = [strength |-> "optional", derived |-> FALSE] /\ DebugUtils \in DOMAIN entries
      BY <2>1, <2>8
    <3>2. all = [explicit EXCEPT !.error = "contradictory_requirements"]
      BY <1>3, <1>4, <2>1, <2>2, <2>8, <3>1 DEF AddRequirement
    <3>3. all.error = "contradictory_requirements"
      BY <2>1, <3>2
    <3>4. required \cap O # {}
      BY <1>2, <2>8
    <3> QED BY <3>3, <3>4
  <2> QED BY <1>2, <2>4, <2>5, <2>6, <2>7, <2>8
<1>5. R \subseteq required /\ O \subseteq optional
  BY <1>2
<1> QED BY <1>1, <1>4, <1>5 DEF Gathers, R, O, explicit, required, optional, all

-----------------------------------------------------------------------------
(* One more name at the end.                                                *)
LEMMA AppendAscends ==
    ASSUME NEW s \in Seq(Nat), Ascends(s), NEW name \in Nat, \A n \in Range(s) : n < name
    PROVE  /\ Append(s, name) \in Seq(Nat) /\ Ascends(Append(s, name))
           /\ Range(Append(s, name)) = Range(s) \cup {name}
<1> DEFINE n == Len(s)
           more == Append(s, name)
<1>1. /\ n \in Nat /\ DOMAIN s = 1..n /\ DOMAIN more = 1..n + 1 /\ more \in Seq(Nat)
      /\ \A k \in 1..n : more[k] = s[k]
      /\ more[n + 1] = name
  OBVIOUS
<1> HIDE DEF more, n
<1>2. \A k \in 1..n + 1 : k \in 1..n \/ k = n + 1
  BY <1>1
<1>3. ASSUME NEW j \in 1..n + 1, NEW k \in 1..n + 1, j < k PROVE more[j] < more[k]
  <2>1. j \in 1..n
    BY <1>1, <1>3
  <2>2. CASE k \in 1..n
    BY <1>1, <1>3, <2>1, <2>2 DEF Ascends
  <2>3. CASE k = n + 1
    BY <1>1, <2>1, <2>3 DEF Range
  <2> QED BY <1>2, <2>2, <2>3
<1>4. Range(more) = Range(s) \cup {name}
  <2>1. 1..n \subseteq 1..n + 1 /\ n + 1 \in 1..n + 1
    BY <1>1
  <2> QED BY <1>1, <1>2, <2>1 DEF Range
<1> QED BY <1>1, <1>3, <1>4 DEF Ascends, more

(* The names of the decisions that accept, in their order.                  *)
LEMMA EnabledIs ==
    ASSUME NEW S, NEW decisions \in Seq(S),
           \A k \in DOMAIN decisions : decisions[k].name \in Nat,
           \A j, k \in DOMAIN decisions : j < k => decisions[j].name < decisions[k].name
    PROVE  /\ Ascends(Enabled(decisions))
           /\ \A name : name \in Range(Enabled(decisions)) <=>
                \E k \in DOMAIN decisions :
                    decisions[k].name = name /\ decisions[k].reason # "unsupported"
<1> DEFINE len == Len(decisions)
           Step(names, n) == IF decisions[n].reason = "unsupported" THEN names
                             ELSE Append(names, decisions[n].name)
           Is(g, m) == g = [n \in 0..m |-> IF n = 0 THEN <<>> ELSE Step(g[n - 1], n)]
           enabled == CHOOSE g : Is(g, len)
           Accepts(name, k) == decisions[k].name = name /\ decisions[k].reason # "unsupported"
<1>1. \E g : Is(g, len)
  <2> DEFINE Defined == {m \in Nat : \E g : Is(g, m)}
  <2>1. 0 \in Defined
    <3>1. \A n \in 0..0 : n = 0
      OBVIOUS
    <3>2. Is([n \in 0..0 |-> <<>>], 0)
      BY <3>1
    <3> QED BY <3>2
  <2>2. ASSUME NEW m \in Nat, m \in Defined PROVE m + 1 \in Defined
    <3>1. PICK g : Is(g, m)
      BY <2>2
    <3> DEFINE h == [n \in 0..m + 1 |-> IF n <= m THEN g[n] ELSE Step(g[m], n)]
    <3>2. \A n \in 0..m : g[n] = IF n = 0 THEN <<>> ELSE Step(g[n - 1], n)
      BY <3>1
    <3> HIDE DEF Step
    <3>3. \A n \in 0..m : h[n] = g[n]
      OBVIOUS
    <3>4. h[m + 1] = Step(g[m], m + 1)
      <4>1. m + 1 \in 0..m + 1 /\ ~(m + 1 <= m)
        OBVIOUS
      <4> QED BY <4>1
    <3>5. ASSUME NEW n \in 0..m + 1 PROVE h[n] = IF n = 0 THEN <<>> ELSE Step(h[n - 1], n)
      <4>1. CASE n = m + 1
        <5>1. n # 0 /\ n - 1 = m /\ h[n - 1] = g[m]
          BY <3>3, <4>1
        <5> QED BY <3>4, <4>1, <5>1
      <4>2. CASE n \in 0..m
        <5>1. n # 0 => h[n - 1] = g[n - 1]
          BY <3>3, <4>2
        <5> QED BY <3>2, <3>3, <4>2, <5>1
      <4> QED BY <4>1, <4>2
    <3>6. Is(h, m + 1)
      BY <3>5
    <3> HIDE DEF Is, h
    <3> QED BY <3>6
  <2> HIDE DEF Defined
  <2>3. len \in Defined
    BY <2>1, <2>2, NaturalsByInduction
  <2> QED BY <2>3 DEF Defined
<1>2. Is(enabled, len)
  BY <1>1
<1>3. Enabled(decisions) = enabled[len]
  BY DEF Enabled
<1> HIDE DEF enabled
<1> DEFINE Good == {n \in Nat : n <= len =>
                      /\ enabled[n] \in Seq(Nat) /\ Ascends(enabled[n])
                      /\ \A name : name \in Range(enabled[n]) <=> \E k \in 1..n : Accepts(name, k)}
<1>4. 0 \in Good
  <2>1. enabled[0] = <<>>
    BY <1>2
  <2>2. ~\E k \in 1..0 : TRUE
    OBVIOUS
  <2>3. <<>> \in Seq(Nat) /\ Ascends(<<>>) /\ \A name : name \notin Range(<<>>)
    BY DEF Ascends, Range
  <2> HIDE DEF Accepts
  <2> QED BY <2>1, <2>2, <2>3
<1>5. ASSUME NEW n \in Nat, n \in Good PROVE n + 1 \in Good
  <2> DEFINE k == n + 1
  <2> SUFFICES ASSUME k <= len
               PROVE  /\ enabled[k] \in Seq(Nat) /\ Ascends(enabled[k])
                      /\ \A name : name \in Range(enabled[k]) <=> \E j \in 1..k : Accepts(name, j)
    OBVIOUS
  <2>1. /\ k \in 0..len /\ k # 0 /\ k - 1 = n /\ k \in DOMAIN decisions
        /\ \A j \in 1..n : j \in DOMAIN decisions /\ j < k
        /\ \A j \in 1..k : j \in 1..n \/ j = k
        /\ 1..n \subseteq 1..k /\ k \in 1..k
    OBVIOUS
  <2>2. /\ enabled[n] \in Seq(Nat) /\ Ascends(enabled[n])
        /\ \A name : name \in Range(enabled[n]) <=> \E j \in 1..n : Accepts(name, j)
    BY <1>5
  <2> HIDE DEF k
  <2>3. enabled[k] = Step(enabled[n], k)
    BY <1>2, <2>1
  <2>4. CASE decisions[k].reason = "unsupported"
    <3>1. enabled[k] = enabled[n] /\ \A name : ~Accepts(name, k)
      BY <2>3, <2>4
    <3> HIDE DEF Accepts
    <3> QED BY <2>1, <2>2, <3>1
  <2>5. CASE decisions[k].reason # "unsupported"
    <3> DEFINE last == decisions[k].name
    <3>1. enabled[k] = Append(enabled[n], last) /\ \A name : Accepts(name, k) <=> name = last
      BY <2>3, <2>5
    <3>2. last \in Nat
      BY <2>1
    <3>3. \A name \in Range(enabled[n]) : name < last
      BY <2>1, <2>2
    <3> HIDE DEF Accepts, last
    <3>4. /\ enabled[k] \in Seq(Nat) /\ Ascends(enabled[k])
          /\ Range(enabled[k]) = Range(enabled[n]) \cup {last}
      BY <2>2, <3>1, <3>2, <3>3, AppendAscends
    <3> QED BY <2>1, <2>2, <3>1, <3>4
  <2> QED BY <2>4, <2>5
<1>6. len \in Nat /\ 1..len = DOMAIN decisions
  OBVIOUS
<1> HIDE DEF Good, len
<1>7. len \in Good
  BY <1>4, <1>5, <1>6, NaturalsByInduction
<1> QED BY <1>3, <1>6, <1>7 DEF Good

\* A name is decided, as the map tells, and in canonical order.
Decided(decisions, required, optional, explicit, available) ==
    /\ \A j, k \in DOMAIN decisions : j < k => decisions[j].name < decisions[k].name
    /\ \A name : name \in required \cup optional <=>
                    \E k \in DOMAIN decisions : decisions[k].name = name
    /\ \A k \in DOMAIN decisions :
        /\ decisions[k].strength = "required" <=> decisions[k].name \in required
        /\ decisions[k].derived <=> decisions[k].name \notin explicit
        /\ decisions[k].reason = "unsupported" <=> decisions[k].name \notin Range(available)
    /\ Ascends(Enabled(decisions))
    /\ Range(Enabled(decisions)) = (required \cup optional) \cap Range(available)

(* What the loop over the map decides.                                      *)
LEMMA DecisionsAre ==
    ASSUME NEW r, NEW required, NEW optional, NEW explicit, NEW available,
           required \cup optional \in SUBSET Nat, IsFiniteSet(required \cup optional),
           Tells(r.entries, required, optional, explicit)
    PROVE  Decided(Decisions(r, available), required, optional, explicit, available)
<1> DEFINE all == required \cup optional
           names == Sorted(all)
           decisions == Decisions(r, available)
           Decide(name) == [name |-> name, strength |-> r.entries[name].strength,
                            derived |-> r.entries[name].derived,
                            reason |-> Reason(r.entries[name], name \in Range(available))]
<1>1. DOMAIN r.entries = all
  BY DEF Tells
<1>2. names \in Seq(Nat) /\ Range(names) = all /\ Ascends(names)
  <2>1. all \in SUBSET Nat /\ IsFiniteSet(all)
    OBVIOUS
  <2> HIDE DEF all
  <2> QED BY <2>1, SortedIs
<1>3. decisions = [k \in DOMAIN names |-> Decide(names[k])]
  BY <1>1 DEF Decisions
<1>4. ASSUME NEW name \in all
      PROVE  /\ Decide(name).name = name
             /\ Decide(name).strength = "required" <=> name \in required
             /\ Decide(name).derived <=> name \notin explicit
             /\ Decide(name).reason = "unsupported" <=> name \notin Range(available)
  <2> DEFINE entry == r.entries[name]
  <2>1. entry = [strength |-> IF name \in required THEN "required" ELSE "optional",
                 derived |-> name \notin explicit]
    BY DEF Tells
  <2>2. /\ entry.strength = "required" <=> name \in required
        /\ entry.derived <=> name \notin explicit
    <3> HIDE DEF entry
    <3>1. entry.strength = "required" <=> name \in required
      BY <2>1
    <3>2. CASE name \in explicit
      <4>1. (name \notin explicit) = FALSE
        BY <3>2
      <4>2. entry.derived = FALSE
        BY <2>1, <4>1
      <4> QED BY <3>1, <3>2, <4>2
    <3>3. CASE name \notin explicit
      <4>1. (name \notin explicit) = TRUE
        BY <3>3
      <4>2. entry.derived = TRUE
        BY <2>1, <4>1
      <4> QED BY <3>1, <3>3, <4>2
    <3> QED BY <3>2, <3>3
  <2>3. Reason(entry, name \in Range(available)) = "unsupported" <=> name \notin Range(available)
    BY DEF Reason
  <2> HIDE DEF entry
  <2> QED BY <2>2, <2>3 DEF entry
<1> HIDE DEF Decide, decisions, all, names
<1>5. DOMAIN names = 1..Len(names) /\ Len(names) \in Nat /\ \A k \in DOMAIN names : names[k] \in all
  BY <1>2 DEF Range
<1>6. DOMAIN decisions = DOMAIN names
      /\ \A k \in DOMAIN names : decisions[k] = Decide(names[k]) /\ decisions[k].name = names[k]
  BY <1>3, <1>4, <1>5
<1>7. decisions \in Seq({decisions[k] : k \in DOMAIN names})
  <2> DEFINE S == {decisions[k] : k \in DOMAIN names}
  <2>1. decisions \in [1..Len(names) -> S]
    BY <1>3, <1>5
  <2> HIDE DEF S
  <2> QED BY <1>5, <2>1 DEF S
<1>8. /\ \A k \in DOMAIN decisions : decisions[k].name \in Nat
      /\ \A j, k \in DOMAIN decisions : j < k => decisions[j].name < decisions[k].name
  BY <1>2, <1>6 DEF Ascends
<1>9. /\ Ascends(Enabled(decisions))
      /\ \A name : name \in Range(Enabled(decisions)) <=>
           \E k \in DOMAIN decisions :
               decisions[k].name = name /\ decisions[k].reason # "unsupported"
  BY <1>7, <1>8, EnabledIs
<1>10. \A k \in DOMAIN decisions :
        /\ decisions[k].strength = "required" <=> decisions[k].name \in required
        /\ decisions[k].derived <=> decisions[k].name \notin explicit
        /\ decisions[k].reason = "unsupported" <=> decisions[k].name \notin Range(available)
  BY <1>4, <1>5, <1>6
<1>11. \A name : name \in all <=> \E k \in DOMAIN decisions : decisions[k].name = name
  BY <1>2, <1>6 DEF Range
<1>12. Range(Enabled(decisions)) = all \cap Range(available)
  <2>1. ASSUME NEW name
        PROVE  name \in Range(Enabled(decisions)) <=> name \in all \cap Range(available)
    BY <1>9, <1>10, <1>11
  <2> QED BY <2>1
<1> QED BY <1>8, <1>9, <1>10, <1>11, <1>12 DEF Decided, all, decisions

(* What the map tells is missing.                                           *)
LEMMA MissingIs ==
    ASSUME NEW r, NEW required, NEW optional, NEW explicit, NEW available,
           Tells(r.entries, required, optional, explicit)
    PROVE  Missing(r, available) <=> ~(required \subseteq Range(available))
<1>1. /\ DOMAIN r.entries = required \cup optional
      /\ \A name \in required \cup optional :
            r.entries[name].strength = "required" <=> name \in required
  BY DEF Tells
<1> QED BY <1>1 DEF Missing

-----------------------------------------------------------------------------
\* Names as a snapshot lists them.
Listed(c) == c.version \in Nat /\ c.extensions \in Seq(Nat) /\ c.layers \in Seq(Nat)

\* The last question was one about lists of names, and the answer is to it.
AnswerInv ==
    /\ host \in Hosts
    /\ capabilities # NoSnapshot => Listed(capabilities)
    /\ asked # NoQuestion =>
        /\ asked.description \in Descriptions /\ Listed(asked.capabilities)
        /\ asked.error = ResolveError(asked.description, asked.capabilities)
        /\ asked.error = "success" => plan = Plan(asked.description, asked.capabilities)

(* The answers, of the names alone.                                         *)
LEMMA AnswersAreCanonical == AnswerInv => PlansAreCanonical
<1> DEFINE d == asked.description
           c == asked.capabilities
           required == Wanted(d, "required")
           optional == Wanted(d, "optional")
           explicit == Range(d.required_extensions \o d.optional_extensions)
           layers == Range(d.required_layers \o d.optional_layers)
           contradicted ==
              \/ required \cap Range(d.optional_extensions) # {}
              \/ Range(d.required_layers) \cap Range(d.optional_layers) # {}
           possible ==
              /\ d.wellformed /\ EffectiveVersion(d) \in 1..c.version
              /\ {Empty, Nul} \cap (explicit \cup layers) = {}
              /\ Nul \notin Range(c.extensions \o c.layers)
              /\ ~contradicted
              /\ required \subseteq Range(c.extensions)
              /\ Range(d.required_layers) \subseteq Range(c.layers)
           Ascending(names) == \A j, k \in DOMAIN names : j < k => names[j] < names[k]
           NamesOf(decisions) == [k \in DOMAIN decisions |-> decisions[k].name]
           decided == plan.extensionDecisions
           R == Range(d.required_extensions)
           O == Range(d.optional_extensions)
           LR == Range(d.required_layers)
           LO == Range(d.optional_layers)
           first == Explicit(d.required_extensions, d.optional_extensions)
           e == Extensions(d)
           l == Layers(d)
<1> SUFFICES ASSUME AnswerInv, asked # NoQuestion
             PROVE  /\ asked.error = "success" <=> possible
                    /\ asked.error = "contradictory_requirements" => contradicted
                    /\ asked.error = "success" =>
                        /\ Ascending(NamesOf(decided)) /\ Ascending(NamesOf(plan.layerDecisions))
                        /\ Range(NamesOf(decided)) = required \cup optional
                        /\ Range(NamesOf(plan.layerDecisions)) = layers
                        /\ Ascending(plan.extensions) /\ Ascending(plan.layers)
                        /\ Range(plan.extensions) = (required \cup optional) \cap Range(c.extensions)
                        /\ Range(plan.layers) = layers \cap Range(c.layers)
                        /\ \A k \in DOMAIN decided :
                              /\ decided[k].strength = "required" <=> decided[k].name \in required
                              /\ decided[k].derived <=> decided[k].name \notin explicit
                        /\ plan.debug_utils_derived <=>
                              plan.debug_utils_enabled /\ DebugUtils \notin explicit
  BY DEF PlansAreCanonical
<1>1. /\ d \in Descriptions /\ Listed(c) /\ asked.error = ResolveError(d, c)
      /\ asked.error = "success" => plan = Plan(d, c)
  BY DEF AnswerInv
<1> HIDE DEF d, c
<1>2. /\ d.api_version \in Nat /\ d.debug_utils \in {"disabled", "optional", "required"}
      /\ d.required_extensions \in Seq(Nat) /\ d.optional_extensions \in Seq(Nat)
      /\ d.required_layers \in Seq(Nat) /\ d.optional_layers \in Seq(Nat)
  BY <1>1, InstanceAssumption
<1>3. explicit = R \cup O /\ layers = LR \cup LO
  BY <1>2, NamesOfBoth
<1>4. /\ required = R \cup (IF d.debug_utils = "required" THEN {DebugUtils} ELSE {})
      /\ optional = O \cup (IF d.debug_utils = "optional" THEN {DebugUtils} ELSE {})
  BY DEF Wanted
<1>5. /\ first.error = "success" <=> {Empty, Nul} \cap (R \cup O) = {} /\ R \cap O = {}
      /\ first.error = "contradictory_requirements" => R \cap O # {}
      /\ R \subseteq required /\ O \subseteq optional
      /\ first.error = "success" =>
            /\ e.error = "success" <=> required \cap O = {}
            /\ e.error = "success" => Tells(e.entries, required, optional, R \cup O)
  BY <1>1, ExtensionsAre
<1>6. /\ l.error = "success" <=> {Empty, Nul} \cap (LR \cup LO) = {} /\ LR \cap LO = {}
      /\ l.error = "contradictory_requirements" => LR \cap LO # {}
      /\ l.error = "success" => Tells(l.entries, LR, LO, LR \cup LO)
  BY <1>1, LayersAre
<1>7. ResolveError(d, c) =
        IF ~d.wellformed \/ d.api_version = 0 THEN "invalid_description"
        ELSE IF EffectiveVersion(d) > c.version THEN "unsupported_api_version"
        ELSE IF first.error # "success" THEN first.error
        ELSE IF l.error # "success" THEN l.error
        ELSE IF Nul \in Range(c.extensions \o c.layers) THEN "invalid_description"
        ELSE IF e.error # "success" THEN e.error
        ELSE IF Missing(e, c.extensions) THEN "missing_required_extension"
        ELSE IF Missing(l, c.layers) THEN "missing_required_layer"
        ELSE "success"
  BY DEF ResolveError
<1>8. /\ d.api_version = 0 => EffectiveVersion(d) \notin 1..c.version
      /\ d.api_version # 0 =>
            (EffectiveVersion(d) > c.version <=> EffectiveVersion(d) \notin 1..c.version)
  <2>1. c.version \in Nat
    BY <1>1 DEF Listed
  <2> QED BY <1>2, <2>1 DEF EffectiveVersion, NoVersion, DefaultVersion
<1>9. first.error = "success" /\ e.error = "success" =>
        (Missing(e, c.extensions) <=> ~(required \subseteq Range(c.extensions)))
  <2> HIDE DEF e, first, R, O, required, optional
  <2> QED BY <1>5, MissingIs
<1>10. l.error = "success" => (Missing(l, c.layers) <=> ~(LR \subseteq Range(c.layers)))
  <2> HIDE DEF l, LR, LO
  <2> QED BY <1>6, MissingIs
<1>11. contradicted <=> required \cap O # {} \/ LR \cap LO # {}
  OBVIOUS
<1>12. possible <=>
        /\ d.wellformed /\ EffectiveVersion(d) \in 1..c.version
        /\ {Empty, Nul} \cap (R \cup O) = {} /\ {Empty, Nul} \cap (LR \cup LO) = {}
        /\ Nul \notin Range(c.extensions \o c.layers)
        /\ required \cap O = {} /\ LR \cap LO = {}
        /\ required \subseteq Range(c.extensions) /\ LR \subseteq Range(c.layers)
  <2>1. {Empty, Nul} \cap (explicit \cup layers) = {} <=>
            {Empty, Nul} \cap (R \cup O) = {} /\ {Empty, Nul} \cap (LR \cup LO) = {}
    <3> HIDE DEF explicit, layers, R, O, LR, LO
    <3> QED BY <1>3
  <2> HIDE DEF explicit, layers, R, O, required, contradicted
  <2> QED BY <1>11, <2>1
<1> HIDE DEF required, optional, explicit, layers, R, O, LR, LO, first, e, l, contradicted, possible
<1>13. R \cap O # {} => required \cap O # {}
  BY <1>5
<1>14. asked.error = "success" <=> possible
  BY <1>1, <1>5, <1>6, <1>7, <1>8, <1>9, <1>10, <1>12, <1>13
<1>15. asked.error = "contradictory_requirements" => contradicted
  BY <1>1, <1>5, <1>6, <1>7, <1>11, <1>13
<1>16. ASSUME asked.error = "success"
       PROVE  /\ Ascending(NamesOf(decided)) /\ Ascending(NamesOf(plan.layerDecisions))
              /\ Range(NamesOf(decided)) = required \cup optional
              /\ Range(NamesOf(plan.layerDecisions)) = layers
              /\ Ascending(plan.extensions) /\ Ascending(plan.layers)
              /\ Range(plan.extensions) = (required \cup optional) \cap Range(c.extensions)
              /\ Range(plan.layers) = layers \cap Range(c.layers)
              /\ \A k \in DOMAIN decided :
                    /\ decided[k].strength = "required" <=> decided[k].name \in required
                    /\ decided[k].derived <=> decided[k].name \notin explicit
              /\ plan.debug_utils_derived <=>
                    plan.debug_utils_enabled /\ DebugUtils \notin explicit
  <2> DEFINE those == plan.layerDecisions
  <2>1. first.error = "success" /\ e.error = "success" /\ l.error = "success"
    BY <1>1, <1>7, <1>16
  <2>2. required \cup optional \in SUBSET Nat /\ IsFiniteSet(required \cup optional)
    <3>1. R \cup O \in SUBSET Nat /\ IsFiniteSet(R \cup O)
      BY <1>2, NamesAreFinite, FS_Union DEF R, O
    <3>2. required \cup optional = R \cup O
            \/ required \cup optional = R \cup O \cup {DebugUtils}
      BY <1>2, <1>4
    <3>3. DebugUtils \in Nat
      BY DEF DebugUtils
    <3>4. IsFiniteSet(R \cup O \cup {DebugUtils})
      BY <3>1, FS_AddElement
    <3>5. R \cup O \cup {DebugUtils} \in SUBSET Nat
      BY <3>1, <3>3
    <3> QED BY <3>1, <3>2, <3>4, <3>5
  <2>3. LR \cup LO \in SUBSET Nat /\ IsFiniteSet(LR \cup LO)
    BY <1>2, NamesAreFinite, FS_Union DEF LR, LO
  <2>4. Decided(Decisions(e, c.extensions), required, optional, R \cup O, c.extensions)
    BY <1>5, <2>1, <2>2, DecisionsAre
  <2>5. Decided(Decisions(l, c.layers), LR, LO, LR \cup LO, c.layers)
    BY <1>6, <2>1, <2>3, DecisionsAre
  <2>6. /\ decided = Decisions(e, c.extensions) /\ those = Decisions(l, c.layers)
        /\ plan.extensions = Enabled(decided) /\ plan.layers = Enabled(those)
        /\ plan.debug_utils_enabled = DebugUtilsEnabled(d, Enabled(decided))
        /\ plan.debug_utils_derived = (plan.debug_utils_enabled /\ \E k \in DOMAIN decided :
                decided[k].name = DebugUtils /\ decided[k].derived)
    BY <1>1, <1>16 DEF Plan, e, l
  <2> HIDE DEF decided, those
  <2>7. /\ Decided(decided, required, optional, explicit, c.extensions)
        /\ Decided(those, LR, LO, layers, c.layers)
    BY <1>3, <2>4, <2>5, <2>6
  <2>8. /\ Ascending(NamesOf(decided)) /\ Range(NamesOf(decided)) = required \cup optional
        /\ Ascending(plan.extensions)
        /\ Range(plan.extensions) = (required \cup optional) \cap Range(c.extensions)
    <3>1. Ascending(NamesOf(decided))
      BY <2>7 DEF Decided
    <3>2. \A name : name \in Range(NamesOf(decided)) <=>
                        \E k \in DOMAIN decided : decided[k].name = name
      BY DEF Range
    <3>3. Range(NamesOf(decided)) = required \cup optional
      <4> HIDE DEF NamesOf
      <4> QED BY <2>7, <3>2 DEF Decided
    <3> QED BY <2>6, <2>7, <3>1, <3>3 DEF Decided, Ascends
  <2>9. /\ Ascending(NamesOf(those)) /\ Range(NamesOf(those)) = layers
        /\ Ascending(plan.layers) /\ Range(plan.layers) = layers \cap Range(c.layers)
    <3>1. Ascending(NamesOf(those))
      BY <2>7 DEF Decided
    <3>2. \A name : name \in Range(NamesOf(those)) <=> \E k \in DOMAIN those : those[k].name = name
      BY DEF Range
    <3>3. Range(NamesOf(those)) = layers
      <4> HIDE DEF NamesOf
      <4> QED BY <1>3, <2>7, <3>2 DEF Decided
    <3> QED BY <1>3, <2>6, <2>7, <3>1, <3>3 DEF Decided, Ascends
  <2>10. \A k \in DOMAIN decided :
            /\ decided[k].strength = "required" <=> decided[k].name \in required
            /\ decided[k].derived <=> decided[k].name \notin explicit
    BY <2>7 DEF Decided
  <2>11. plan.debug_utils_derived <=> plan.debug_utils_enabled /\ DebugUtils \notin explicit
    <3>1. plan.debug_utils_enabled => DebugUtils \in required \cup optional
      BY <2>6, <2>7 DEF Decided, DebugUtilsEnabled
    <3>2. DebugUtils \in required \cup optional =>
            ((\E k \in DOMAIN decided : decided[k].name = DebugUtils /\ decided[k].derived)
                <=> DebugUtils \notin explicit)
      BY <2>7, <2>10 DEF Decided
    <3> QED BY <2>6, <3>1, <3>2
  <2> QED BY <2>8, <2>9, <2>10, <2>11 DEF those, decided
<1> HIDE DEF Ascending, NamesOf, decided
<1> QED BY <1>14, <1>15, <1>16

(* What the loader lists is listed.                                         *)
LEMMA QueriedIsListed ==
    ASSUME NEW h \in Hosts
    PROVE  Listed(Queried(h))
<1>1. h.version \in Nat /\ h.extensions \in Seq(Nat) /\ h.layers \in Seq(Nat)
  BY InstanceAssumption
<1>2. Canonical(h.extensions) \in Seq(Nat) /\ Canonical(h.layers) \in Seq(Nat)
  BY <1>1, NamesAreFinite, SortedIs DEF Canonical
<1> QED BY <1>1, <1>2 DEF Queried, Listed

LEMMA AnswersStand == Spec => []AnswerInv
<1>1. Init => AnswerInv
  BY DEF Init, AnswerInv
<1>2. ASSUME AnswerInv, [Next]_vars PROVE AnswerInv'
  <2>1. ASSUME asked' = NoQuestion, UNCHANGED <<host, capabilities>>
        PROVE  AnswerInv'
    BY <1>2, <2>1 DEF AnswerInv, Listed
  <2>2. ASSUME NEW n \in DOMAIN vulkan, NEW message \in Messages, Callback(n, message)
        PROVE  AnswerInv'
    BY <2>1, <2>2 DEF Callback
  <2>3. CASE Query
    BY <1>2, <2>3, QueriedIsListed DEF Query, AnswerInv
  <2>4. CASE UNCHANGED vars
    BY <1>2, <2>4 DEF vars, resolveVars, AnswerInv, Listed
  <2>5. ASSUME NEW d \in Descriptions, NEW c, Listed(c), Resolve(d, c)
        PROVE  AnswerInv'
    <3>1. /\ asked' = [error |-> ResolveError(d, c), description |-> d, capabilities |-> c]
          /\ plan' = IF asked'.error = "success" THEN Plan(d, c) ELSE plan
          /\ UNCHANGED <<host, capabilities>>
      BY <2>5 DEF Resolve
    <3>2. /\ asked'.error = ResolveError(d, c)
          /\ asked'.description = d /\ asked'.capabilities = c
      BY <3>1
    <3>3. capabilities' # NoSnapshot => Listed(capabilities')
      BY <1>2, <3>1 DEF AnswerInv
    <3> QED BY <1>2, <2>5, <3>1, <3>2, <3>3 DEF AnswerInv, Listed
  <2>6. ASSUME NEW d \in Descriptions, ResolveQueried(d) PROVE AnswerInv'
    <3>1. Listed(capabilities) /\ Resolve(d, capabilities)
      BY <1>2, <2>6 DEF ResolveQueried, AnswerInv
    <3> QED BY <2>5, <3>1
  <2>7. ASSUME NEW d \in Descriptions, NEW c \in Snapshots, Resolve(d, c)
        PROVE  AnswerInv'
    <3>1. Listed(c)
      BY InstanceAssumption DEF Listed
    <3> QED BY <2>5, <2>7, <3>1
  <2>8. CASE MovePlanAway \/ MakeCallbackState \/ CallNative \/ NativeReturns \/ MakeMessenger
             \/ MakeImpl \/ Unwind
    BY <2>1, <2>8 DEF Quiet, MovePlanAway, MakeCallbackState, CallNative, NativeReturns, MakeMessenger, MakeImpl, Unwind
  <2>9. CASE DestroyMessenger \/ DestroyNative \/ FreeCallbackState \/ CloseContext
    BY <2>1, <2>9 DEF Quiet, DestroyMessenger, DestroyNative, FreeCallbackState, CloseContext
  <2>10. ASSUME NEW i \in Instances, NEW sink \in Sinks \cup {NoSink}, Create(i, sink)
         PROVE  AnswerInv'
    BY <2>1, <2>10 DEF Quiet, Create
  <2>11. ASSUME NEW i \in Instances, NEW j \in Instances, MoveInstance(i, j) \/ DestroyInstance(i)
         PROVE  AnswerInv'
    BY <2>1, <2>11 DEF Quiet, MoveInstance, DestroyInstance
  <2> QED BY <1>2, <2>2, <2>3, <2>4, <2>6, <2>7, <2>8, <2>9, <2>10, <2>11 DEF Next
<1> QED BY <1>1, <1>2, PTL DEF Spec

-----------------------------------------------------------------------------
(* Theorems                                                                *)

\* Native code that calls back, from a messenger or during creation and
\* destruction, finds the live CallbackState of its own instance and no other's
\* at a reused address (instance_impl.hpp:18-24, instance.cpp:715-753).
THEOREM NoCallbackFindsADeadSink == Spec => []UserDataIsLive
BY InstancesHold, CallbackStatesLive, PTL

\* And what it is given is the message, whole: its severity, and each of its
\* categories once (instance_query.hpp:40-43, graphics_diagnostics.hpp).
THEOREM EventsReachTheirSink == Spec => []CallbacksReachTheirSink
<1>1. ASSUME UserDataIsLive, EventInv PROVE CallbacksReachTheirSink
  <2>1. SUFFICES ASSUME delivered # NoEvent
                 PROVE  /\ delivered.event.severity = delivered.message.severity
                        /\ Range(delivered.event.categories) = delivered.message.types
                        /\ IsInjective(delivered.event.categories)
    BY <1>1 DEF CallbacksReachTheirSink
  <2>2. /\ delivered.event.severity = delivered.message.severity
        /\ delivered.event.categories = Categories(delivered.message.types)
    BY <1>1, <2>1 DEF EventInv, Event
  <2>3. delivered.message.types \subseteq Range(CategoryOrder)
    BY <1>1, <2>1 DEF EventInv, Mappable
  <2> QED BY <2>2, <2>3, CategoriesFound
<1> QED BY <1>1, NoCallbackFindsADeadSink, EventsAreWhole, PTL

\* createInstance() and the end of an Instance leave nothing that has no owner,
\* wherever a step fails and however wrappers are moved (instance.cpp:643-753).
THEOREM NothingIsLeftBehind == Spec => []InstancesAreOwned
BY InstancesHold, EverythingOwned, PTL

\* Instance::plan() of a wrapper is what its native instance was made with, for any
\* number of Instances, plans assigned and moved by the caller, moves and failures
\* (instance.hpp:254-258, instance.cpp:669-671, 746-749).
THEOREM InstancesKnowTheirPlan == Spec => []RetainedPlansAreEffective
<1>1. ASSUME Inv, RetainedInv PROVE RetainedPlansAreEffective
  <2>1. ASSUME NEW i \in Instances, held[i] # Nothing
        PROVE  held[i].instance = held[i].context /\ PlanOf(i) = retained[i]
    <3>1. held[i] \in Owners
      BY <2>1 DEF Owners
    <3> QED BY <1>1, <2>1, <3>1 DEF Inv, Progress, OwnersInv, Backed, PlanOf
  <2> QED BY <1>1, <2>1 DEF RetainedInv, Known, MadeFrom, RetainedPlansAreEffective
<1> QED BY <1>1, InstancesHold, PlansRetained, PTL

\* resolveInstance() answers from the sets of names alone: whether it succeeds,
\* and the plan it then makes, are the same however the lists that the
\* application and the loader give are ordered and repeated, and the plan is in
\* canonical order (instance.cpp:168-217, 452-624).
THEOREM PlansDependOnNamesAlone == Spec => []PlansAreCanonical
BY AnswersStand, AnswersAreCanonical, PTL
=============================================================================
