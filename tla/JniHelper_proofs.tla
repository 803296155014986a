------------------------- MODULE JniHelper_proofs -------------------------
(***************************************************************************)
(* Proofs about the JNI layer, for any number of threads, PDUs, messages   *)
(* and calls of onCreate.  There are two inductive invariants: Inv, for    *)
(* the threads and what they hold of the VM, and MemoryInv, for the memory *)
(* of the messages that are sent.                                          *)
(***************************************************************************)
EXTENDS JniHelper, TLAPS

(***************************************************************************)
(* The inductive invariant.  A thread is attached exactly while the key    *)
(* has a value for it, so that the destructor detaches whom cacheEnv has   *)
(* attached; and the method is only there after the loader.                *)
(***************************************************************************)
Keyed ==
  /\ attached = key
  /\ \A t \in Receivers : pc[t] \in InCall => t \in attached
  /\ \A t \in Receivers : pc[t] = "ended" => t \notin attached

LoaderStored ==
  /\ classLoader # NoRef => classLoader \in globals
  /\ methodID \/ ui = "set method" => classLoader # NoRef
  /\ ui = "set context" => created > 0

References ==
  \A t \in Receivers :
    /\ pc[t] \in {"none", "receive", "attach", "class"} => locals[t] = missed[t]
    /\ pc[t] \in InCall \ {"class"} => locals[t] = missed[t] + 1

(* Who begins its lookup late enough reads a loader and a method that are set. *)
Lookups ==
  \A t \in Receivers :
    /\ t \in ready => methodID
    /\ t \in ready /\ pc[t] \in {"read method", "load class"} => loader[t] # NoRef
    /\ t \in ready /\ pc[t] = "load class" => t \in method

Places == {"none", "receive", "attach", "exit", "ended",
           "class", "read loader", "read method", "load class", "method", "call"}

Reasons == {"no", "no class loader", "exception pending", "out of memory"}

AbortType == aborted \in [Receivers -> Reasons]

ThreadType ==
  /\ pc \in [Receivers -> Places]
  /\ attached \subseteq Receivers
  /\ locals \in [Receivers -> Int]
  /\ missed \in [Receivers -> Nat]
  /\ loader \in [Receivers -> Nat]
  /\ created \in Nat
  /\ classLoader \in Nat

(* What a thread's counter becomes. *)
LEMMA CountLocals ==
  ASSUME ThreadType, NEW t \in Receivers, locals' = Count(locals, t)
  PROVE  /\ locals' \in [Receivers -> Int]
         /\ \A u \in Receivers : locals'[u] = IF u = t THEN locals[u] + 1 ELSE locals[u]
  BY DEF ThreadType, Count

LEMMA UncountLocals ==
  ASSUME ThreadType, NEW t \in Receivers, locals' = [locals EXCEPT ![t] = @ - 1]
  PROVE  /\ locals' \in [Receivers -> Int]
         /\ \A u \in Receivers : locals'[u] = IF u = t THEN locals[u] - 1 ELSE locals[u]
         /\ locals[t] = missed[t] + 1 => locals'[t] = missed[t]
  BY DEF ThreadType

LEMMA CountMissed ==
  ASSUME ThreadType, NEW t \in Receivers, missed' = Count(missed, t)
  PROVE  /\ missed' \in [Receivers -> Nat]
         /\ \A u \in Receivers : missed'[u] = IF u = t THEN missed[u] + 1 ELSE missed[u]
  BY DEF ThreadType, Count

LEMMA CreatedPositive ==
  ASSUME ThreadType
  PROVE  /\ OnCreate => created' > 0
         /\ created > 0 => created # NoRef
  <1>1. OnCreate => created' = created + 1
    BY DEF OnCreate
  <1>2. QED
    BY <1>1 DEF ThreadType, NoRef

(* A thread goes to a place of its code. *)
LEMMA GoType ==
  ASSUME ThreadType, NEW t \in Receivers, NEW to \in Places, Go(t, to)
  PROVE  pc' \in [Receivers -> Places]
  BY DEF ThreadType, Go

(* Every step keeps the types. *)
LEMMA ThreadTypeStep ==
  ASSUME ThreadType, [Next]_vars
  PROVE  ThreadType'
<1> USE DEF ThreadType, loading, lookup, thread, memory
<1>1. CASE OnCreate
  <2>1. created' = created + 1
    BY <1>1 DEF OnCreate
  <2>2. created' \in Nat
    BY <2>1
  <2>3. QED
    BY <1>1, <2>2 DEF OnCreate
<1>2. CASE SetContextFails
  BY <1>2 DEF SetContextFails
<1>3. CASE StoreLoader
  BY <1>3 DEF StoreLoader
<1>4. CASE StoreMethod
  BY <1>4 DEF StoreMethod
<1>5. CASE GetChars
  BY <1>5 DEF GetChars
<1>6. CASE SendProto
  BY <1>6 DEF SendProto
<1>7. CASE ReleaseChars
  BY <1>7 DEF ReleaseChars
<1>8. CASE TakePdu
  BY <1>8 DEF TakePdu
<1>9. CASE PackPdu
  BY <1>9 DEF PackPdu
<1>10. ASSUME NEW t \in Receivers, TcpFromJNI(t) PROVE ThreadType'
  BY <1>10 DEF TcpFromJNI, Places
<1>11. ASSUME NEW t \in Receivers, Receiver(t) PROVE ThreadType'
  <2>1. CASE ConReceivePdu(t)
    BY <2>1 DEF ConReceivePdu, Go, Places
  <2>2. CASE CacheEnv(t)
    BY <2>2 DEF CacheEnv, Go, Places
  <2>3. CASE CacheEnvFails(t)
    BY <2>3 DEF CacheEnvFails, Go, Places
  <2>4. CASE ReadClassLoader(t)
    BY <2>4 DEF ReadClassLoader, Go, Places
  <2>5. CASE ClassAborts(t)
    BY <2>5 DEF ClassAborts, Go, Abort, Places
  <2>6. CASE LoadClass(t)
    BY <2>6 DEF LoadClass, Go, Places
  <2>7. CASE LoadClassFails(t)
    <3>1. locals' = [locals EXCEPT ![t] = @ - 1]
      BY <2>7 DEF LoadClassFails
    <3>2. locals' \in [Receivers -> Int]
      BY <3>1, UncountLocals
    <3>3. QED
      BY <2>7, <3>2 DEF LoadClassFails, Go, Places
  <2>8. CASE FindMethod(t)
    BY <2>8 DEF FindMethod, Go, Places
  <2>9. CASE FindMethodFails(t)
    <3>1. missed' = Count(missed, t)
      BY <2>9 DEF FindMethodFails
    <3>2. missed' \in [Receivers -> Nat]
      BY <3>1, CountMissed
    <3>3. QED
      BY <2>9, <3>2 DEF FindMethodFails, Go, Places
  <2>10. CASE NewArrayAborts(t)
    BY <2>10 DEF NewArrayAborts, Go, Places, Abort
  <2>11. CASE CallJava(t)
    <3>1. locals' = [locals EXCEPT ![t] = @ - 1]
      BY <2>11 DEF CallJava
    <3>2. locals' \in [Receivers -> Int]
      BY <3>1, UncountLocals
    <3>3. QED
      BY <2>11, <3>2 DEF CallJava, Go, Places
  <2>12. CASE EndReceive(t)
    BY <2>12 DEF EndReceive, Go, Places
  <2>13. CASE ThreadExit(t)
    <3>1. locals' = [locals EXCEPT ![t] = IF t \in key THEN 0 ELSE @]
      BY <2>13 DEF ThreadExit
    <3>2. locals' \in [Receivers -> Int]
      BY <3>1
    <3>3. QED
      BY <2>13, <3>2 DEF ThreadExit, Go, Places
  <2>14. CASE ExitAborts(t)
    BY <2>14 DEF ExitAborts, Go, Places, Abort
  <2>15. CASE NewName(t)
    <3>1. locals' = Count(locals, t)
      BY <2>15 DEF NewName
    <3>2. locals' \in [Receivers -> Int]
      BY <3>1, CountLocals
    <3>3. QED
      BY <2>15, <3>2 DEF NewName, Go, Places
  <2>16. CASE NameAborts(t)
    BY <2>16 DEF NameAborts, Go, Abort, Places
  <2>17. CASE ReadMethodID(t)
    BY <2>17 DEF ReadMethodID, Go, Places
  <2>18. QED
    BY <1>11, <2>1, <2>2, <2>3, <2>4, <2>5, <2>6, <2>7, <2>8, <2>9, <2>10, <2>11, <2>12, <2>13, <2>14,
       <2>15, <2>16, <2>17 DEF Receiver
<1>12. CASE UNCHANGED vars
  BY <1>12 DEF vars
<1>13. QED
  BY <1>1, <1>2, <1>3, <1>4, <1>5, <1>6, <1>7, <1>8, <1>9, <1>10, <1>11, <1>12 DEF Next, UiThread

(* Only cacheEnv and the destructor of the key change who is attached. *)
LEMMA KeyedStep ==
  ASSUME ThreadType, Keyed, [Next]_vars
  PROVE  Keyed'
<1> USE DEF ThreadType, Keyed, InCall, loading, lookup, thread, memory
<1>1. CASE OnCreate
  BY <1>1 DEF OnCreate
<1>2. CASE SetContextFails
  BY <1>2 DEF SetContextFails
<1>3. CASE StoreLoader
  BY <1>3 DEF StoreLoader
<1>4. CASE StoreMethod
  BY <1>4 DEF StoreMethod
<1>5. CASE GetChars
  BY <1>5 DEF GetChars
<1>6. CASE SendProto
  BY <1>6 DEF SendProto
<1>7. CASE ReleaseChars
  BY <1>7 DEF ReleaseChars
<1>8. CASE TakePdu
  BY <1>8 DEF TakePdu
<1>9. CASE PackPdu
  BY <1>9 DEF PackPdu
<1>10. ASSUME NEW t \in Receivers, TcpFromJNI(t) PROVE Keyed'
  BY <1>10 DEF TcpFromJNI
<1>11. ASSUME NEW t \in Receivers, Receiver(t) PROVE Keyed'
  <2>1. CASE ConReceivePdu(t)
    BY <2>1 DEF ConReceivePdu, Go
  <2>2. CASE CacheEnv(t)
    BY <2>2 DEF CacheEnv, Go
  <2>3. CASE CacheEnvFails(t)
    BY <2>3 DEF CacheEnvFails, Go
  <2>4. CASE ReadClassLoader(t)
    BY <2>4 DEF ReadClassLoader, Go
  <2>5. CASE ClassAborts(t)
    BY <2>5 DEF ClassAborts, Go, Abort
  <2>6. CASE LoadClass(t)
    BY <2>6 DEF LoadClass, Go
  <2>7. CASE LoadClassFails(t)
    BY <2>7 DEF LoadClassFails, Go
  <2>8. CASE FindMethod(t)
    BY <2>8 DEF FindMethod, Go
  <2>9. CASE FindMethodFails(t)
    BY <2>9 DEF FindMethodFails, Go
  <2>10. CASE NewArrayAborts(t)
    BY <2>10 DEF NewArrayAborts, Go, Abort
  <2>11. CASE CallJava(t)
    BY <2>11 DEF CallJava, Go
  <2>12. CASE EndReceive(t)
    BY <2>12 DEF EndReceive, Go
  <2>13. CASE ThreadExit(t)
    BY <2>13 DEF ThreadExit, Go
  <2>14. CASE ExitAborts(t)
    BY <2>14 DEF ExitAborts, Go, Abort
  <2>15. CASE NewName(t)
    BY <2>15 DEF NewName, Go
  <2>16. CASE NameAborts(t)
    BY <2>16 DEF NameAborts, Go, Abort
  <2>17. CASE ReadMethodID(t)
    BY <2>17 DEF ReadMethodID, Go
  <2>18. QED
    BY <1>11, <2>1, <2>2, <2>3, <2>4, <2>5, <2>6, <2>7, <2>8, <2>9, <2>10, <2>11, <2>12, <2>13, <2>14,
       <2>15, <2>16, <2>17 DEF Receiver
<1>12. CASE UNCHANGED vars
  BY <1>12 DEF vars
<1>13. QED
  BY <1>1, <1>2, <1>3, <1>4, <1>5, <1>6, <1>7, <1>8, <1>9, <1>10, <1>11, <1>12 DEF Next, UiThread

(* The loader is replaced, and no global reference is ever deleted. *)
LEMMA LoaderStep ==
  ASSUME ThreadType, LoaderStored, LoaderIsValid, [Next]_vars
  PROVE  (LoaderStored /\ LoaderIsValid)'
<1> USE DEF ThreadType, LoaderStored, LoaderIsValid, NoRef, Count, loading, lookup, thread, memory
<1>1. CASE OnCreate
  <2>1. created' > 0
    BY <1>1, CreatedPositive
  <2>2. QED
    BY <1>1, <2>1 DEF OnCreate
<1>2. CASE SetContextFails
  BY <1>2 DEF SetContextFails
<1>3. CASE StoreLoader
  <2>1. ui = "set context"
    BY <1>3 DEF StoreLoader
  <2>2. created # NoRef
    BY <2>1, CreatedPositive
  <2>3. QED
    BY <1>3, <2>2 DEF StoreLoader
<1>4. CASE StoreMethod
  BY <1>4 DEF StoreMethod
<1>5. CASE GetChars
  BY <1>5 DEF GetChars
<1>6. CASE SendProto
  BY <1>6 DEF SendProto
<1>7. CASE ReleaseChars
  BY <1>7 DEF ReleaseChars
<1>8. CASE TakePdu
  BY <1>8 DEF TakePdu
<1>9. CASE PackPdu
  BY <1>9 DEF PackPdu
<1>10. ASSUME NEW t \in Receivers, TcpFromJNI(t) PROVE (LoaderStored /\ LoaderIsValid)'
  BY <1>10 DEF TcpFromJNI
<1>11. ASSUME NEW t \in Receivers, Receiver(t) PROVE (LoaderStored /\ LoaderIsValid)'
  <2>1. CASE ConReceivePdu(t)
    BY <2>1 DEF ConReceivePdu, Go
  <2>2. CASE CacheEnv(t)
    BY <2>2 DEF CacheEnv, Go
  <2>3. CASE CacheEnvFails(t)
    BY <2>3 DEF CacheEnvFails, Go
  <2>4. CASE ReadClassLoader(t)
    BY <2>4 DEF ReadClassLoader, Go
  <2>5. CASE ClassAborts(t)
    BY <2>5 DEF ClassAborts, Go, Abort
  <2>6. CASE LoadClass(t)
    BY <2>6 DEF LoadClass, Go
  <2>7. CASE LoadClassFails(t)
    BY <2>7 DEF LoadClassFails, Go
  <2>8. CASE FindMethod(t)
    BY <2>8 DEF FindMethod, Go
  <2>9. CASE FindMethodFails(t)
    BY <2>9 DEF FindMethodFails, Go
  <2>10. CASE NewArrayAborts(t)
    BY <2>10 DEF NewArrayAborts, Go, Abort
  <2>11. CASE CallJava(t)
    BY <2>11 DEF CallJava, Go
  <2>12. CASE EndReceive(t)
    BY <2>12 DEF EndReceive, Go
  <2>13. CASE ThreadExit(t)
    BY <2>13 DEF ThreadExit, Go
  <2>14. CASE ExitAborts(t)
    BY <2>14 DEF ExitAborts, Go, Abort
  <2>15. CASE NewName(t)
    BY <2>15 DEF NewName, Go
  <2>16. CASE NameAborts(t)
    BY <2>16 DEF NameAborts, Go, Abort
  <2>17. CASE ReadMethodID(t)
    BY <2>17 DEF ReadMethodID, Go
  <2>18. QED
    BY <1>11, <2>1, <2>2, <2>3, <2>4, <2>5, <2>6, <2>7, <2>8, <2>9, <2>10, <2>11, <2>12, <2>13, <2>14,
       <2>15, <2>16, <2>17 DEF Receiver
<1>12. CASE UNCHANGED vars
  BY <1>12 DEF vars
<1>13. QED
  BY <1>1, <1>2, <1>3, <1>4, <1>5, <1>6, <1>7, <1>8, <1>9, <1>10, <1>11, <1>12 DEF Next, UiThread

(* A thread's references are counted call by call. *)
LEMMA ReferencesStep ==
  ASSUME ThreadType, References, [Next]_vars
  PROVE  References'
<1> USE DEF ThreadType, References, InCall, loading, lookup, thread, memory
<1>1. CASE OnCreate
  BY <1>1 DEF OnCreate
<1>2. CASE SetContextFails
  BY <1>2 DEF SetContextFails
<1>3. CASE StoreLoader
  BY <1>3 DEF StoreLoader
<1>4. CASE StoreMethod
  BY <1>4 DEF StoreMethod
<1>5. CASE GetChars
  BY <1>5 DEF GetChars
<1>6. CASE SendProto
  BY <1>6 DEF SendProto
<1>7. CASE ReleaseChars
  BY <1>7 DEF ReleaseChars
<1>8. CASE TakePdu
  BY <1>8 DEF TakePdu
<1>9. CASE PackPdu
  BY <1>9 DEF PackPdu
<1>10. ASSUME NEW t \in Receivers, TcpFromJNI(t) PROVE References'
  BY <1>10 DEF TcpFromJNI
<1>11. ASSUME NEW t \in Receivers, Receiver(t) PROVE References'
  <2>1. CASE ConReceivePdu(t)
    BY <2>1 DEF ConReceivePdu, Go
  <2>2. CASE CacheEnv(t)
    BY <2>2 DEF CacheEnv, Go
  <2>3. CASE CacheEnvFails(t)
    BY <2>3 DEF CacheEnvFails, Go
  <2>4. CASE ReadClassLoader(t)
    BY <2>4 DEF ReadClassLoader, Go
  <2>5. CASE ClassAborts(t)
    BY <2>5 DEF ClassAborts, Go, Abort
  <2>6. CASE LoadClass(t)
    BY <2>6 DEF LoadClass, Go
  <2>7. CASE LoadClassFails(t)
    <3>1. locals' = [locals EXCEPT ![t] = @ - 1]
      BY <2>7 DEF LoadClassFails
    <3>2. \A u \in Receivers : locals'[u] = IF u = t THEN locals[u] - 1 ELSE locals[u]
      BY <3>1, UncountLocals
    <3>3. UNCHANGED missed /\ pc' = [pc EXCEPT ![t] = "receive"]
      BY <2>7 DEF LoadClassFails, Go
    <3>4. pc[t] = "load class"
      BY <2>7 DEF LoadClassFails
    <3>5. locals[t] = missed[t] + 1
      BY <3>4
    <3>6. locals'[t] = missed'[t]
      BY <3>1, <3>3, <3>5, UncountLocals
    <3>7. \A u \in Receivers : u # t => locals'[u] = locals[u]
      BY <3>2
    <3>8. pc'[t] = "receive" /\ \A u \in Receivers : u # t => pc'[u] = pc[u]
      BY <3>3
    <3>9. QED
      BY <3>3, <3>6, <3>7, <3>8
  <2>8. CASE FindMethod(t)
    BY <2>8 DEF FindMethod, Go
  <2>9. CASE FindMethodFails(t)
    <3>1. missed' = Count(missed, t)
      BY <2>9 DEF FindMethodFails
    <3>2. \A u \in Receivers : missed'[u] = IF u = t THEN missed[u] + 1 ELSE missed[u]
      BY <3>1, CountMissed
    <3>3. UNCHANGED locals /\ pc' = [pc EXCEPT ![t] = "receive"]
      BY <2>9 DEF FindMethodFails, Go
    <3>4. pc[t] = "method"
      BY <2>9 DEF FindMethodFails
    <3>5. QED
      BY <3>2, <3>3, <3>4
  <2>10. CASE NewArrayAborts(t)
    BY <2>10 DEF NewArrayAborts, Go, Abort
  <2>11. CASE CallJava(t)
    <3>1. locals' = [locals EXCEPT ![t] = @ - 1]
      BY <2>11 DEF CallJava
    <3>2. \A u \in Receivers : locals'[u] = IF u = t THEN locals[u] - 1 ELSE locals[u]
      BY <3>1, UncountLocals
    <3>3. UNCHANGED missed /\ pc' = [pc EXCEPT ![t] = "receive"]
      BY <2>11 DEF CallJava, Go
    <3>4. pc[t] = "call"
      BY <2>11 DEF CallJava
    <3>5. locals[t] = missed[t] + 1
      BY <3>4
    <3>6. locals'[t] = missed'[t]
      BY <3>1, <3>3, <3>5, UncountLocals
    <3>7. \A u \in Receivers : u # t => locals'[u] = locals[u]
      BY <3>2
    <3>8. pc'[t] = "receive" /\ \A u \in Receivers : u # t => pc'[u] = pc[u]
      BY <3>3
    <3>9. QED
      BY <3>3, <3>6, <3>7, <3>8
  <2>12. CASE EndReceive(t)
    BY <2>12 DEF EndReceive, Go
  <2>13. CASE ThreadExit(t)
    <3>1. \A u \in Receivers : u # t => locals'[u] = locals[u] /\ pc'[u] = pc[u]
      BY <2>13 DEF ThreadExit, Go
    <3>2. pc'[t] = "ended" /\ UNCHANGED missed
      BY <2>13 DEF ThreadExit, Go
    <3>3. QED
      BY <3>1, <3>2
  <2>14. CASE ExitAborts(t)
    BY <2>14 DEF ExitAborts, Go, Abort
  <2>15. CASE NewName(t)
    <3>1. locals' = Count(locals, t)
      BY <2>15 DEF NewName
    <3>2. \A u \in Receivers : locals'[u] = IF u = t THEN locals[u] + 1 ELSE locals[u]
      BY <3>1, CountLocals
    <3>3. UNCHANGED missed /\ pc' = [pc EXCEPT ![t] = "read loader"]
      BY <2>15 DEF NewName, Go
    <3>4. pc[t] = "class"
      BY <2>15 DEF NewName
    <3>5. QED
      BY <3>2, <3>3, <3>4
  <2>16. CASE NameAborts(t)
    BY <2>16 DEF NameAborts, Go, Abort
  <2>17. CASE ReadMethodID(t)
    BY <2>17 DEF ReadMethodID, Go
  <2>18. QED
    BY <1>11, <2>1, <2>2, <2>3, <2>4, <2>5, <2>6, <2>7, <2>8, <2>9, <2>10, <2>11, <2>12, <2>13, <2>14,
       <2>15, <2>16, <2>17 DEF Receiver
<1>12. CASE UNCHANGED vars
  BY <1>12 DEF vars
<1>13. QED
  BY <1>1, <1>2, <1>3, <1>4, <1>5, <1>6, <1>7, <1>8, <1>9, <1>10, <1>11, <1>12 DEF Next, UiThread

(* Only the thread that aborts has a reason. *)
LEMMA AbortStep ==
  ASSUME AbortType, AbortsAreExplained, NEW t \in Receivers, NEW why \in Reasons, Abort(t, why),
         why = "no class loader" => t \notin ready, why = "exception pending" => t \in pending
  PROVE  AbortType' /\ AbortsAreExplained'
<1>1. aborted' \in [Receivers -> Reasons] /\ UNCHANGED <<ready, pending>>
  BY DEF AbortType, Abort, thread, lookup
<1>2. aborted'[t] = why /\ \A u \in Receivers : u # t => aborted'[u] = aborted[u]
  BY DEF AbortType, Abort
<1>3. QED
  BY <1>1, <1>2 DEF AbortType, AbortsAreExplained

LEMMA AbortLookups ==
  ASSUME Lookups, NEW t \in Receivers, NEW why, Abort(t, why)
  PROVE  Lookups'
  BY DEF Lookups, Abort, loading, thread, lookup

(* Once the method is there it stays, and a loader with it, whatever else is stored. *)
LEMMA MethodStep ==
  ASSUME ThreadType, LoaderStored, AbortType, Lookups, AbortsAreExplained, [Next]_vars
  PROVE  (AbortType /\ Lookups /\ AbortsAreExplained)'
<1> USE DEF ThreadType, LoaderStored, AbortType, Lookups, AbortsAreExplained, NoRef,
        loading, lookup, thread, memory
<1>1. CASE OnCreate
  BY <1>1 DEF OnCreate
<1>2. CASE SetContextFails
  BY <1>2 DEF SetContextFails
<1>3. CASE StoreLoader
  BY <1>3 DEF StoreLoader
<1>4. CASE StoreMethod
  BY <1>4 DEF StoreMethod
<1>5. CASE GetChars
  BY <1>5 DEF GetChars
<1>6. CASE SendProto
  BY <1>6 DEF SendProto
<1>7. CASE ReleaseChars
  BY <1>7 DEF ReleaseChars
<1>8. CASE TakePdu
  BY <1>8 DEF TakePdu
<1>9. CASE PackPdu
  BY <1>9 DEF PackPdu
<1>10. ASSUME NEW t \in Receivers, TcpFromJNI(t) PROVE (AbortType /\ Lookups /\ AbortsAreExplained)'
  BY <1>10 DEF TcpFromJNI
<1>11. ASSUME NEW t \in Receivers, Receiver(t) PROVE (AbortType /\ Lookups /\ AbortsAreExplained)'
  <2>1. CASE ConReceivePdu(t)
    BY <2>1 DEF ConReceivePdu, Go
  <2>2. CASE CacheEnv(t)
    BY <2>2 DEF CacheEnv, Go
  <2>3. CASE CacheEnvFails(t)
    BY <2>3 DEF CacheEnvFails, Go
  <2>4. CASE ReadClassLoader(t)
    BY <2>4 DEF ReadClassLoader, Go
  <2>5. CASE ClassAborts(t)
    <3>1. Abort(t, "no class loader") /\ "no class loader" \in Reasons
      BY <2>5 DEF ClassAborts, Reasons
    <3>2. t \notin ready
      BY <2>5 DEF ClassAborts, CanLoad
    <3>3. QED
      BY <3>1, <3>2, AbortStep, AbortLookups
  <2>6. CASE LoadClass(t)
    BY <2>6 DEF LoadClass, Go
  <2>7. CASE LoadClassFails(t)
    BY <2>7 DEF LoadClassFails, Go
  <2>8. CASE FindMethod(t)
    BY <2>8 DEF FindMethod, Go
  <2>9. CASE FindMethodFails(t)
    BY <2>9 DEF FindMethodFails, Go
  <2>10. CASE NewArrayAborts(t)
    <3>1. Abort(t, "out of memory") /\ "out of memory" \in Reasons
      BY <2>10 DEF NewArrayAborts, Reasons
    <3>3. QED
      BY <3>1, AbortStep, AbortLookups
  <2>11. CASE CallJava(t)
    BY <2>11 DEF CallJava, Go
  <2>12. CASE EndReceive(t)
    BY <2>12 DEF EndReceive, Go
  <2>13. CASE ThreadExit(t)
    BY <2>13 DEF ThreadExit, Go
  <2>14. CASE ExitAborts(t)
    <3>1. Abort(t, "exception pending") /\ "exception pending" \in Reasons
      BY <2>14 DEF ExitAborts, Reasons
    <3>2. t \in pending
      BY <2>14 DEF ExitAborts
    <3>3. QED
      BY <3>1, <3>2, AbortStep, AbortLookups
  <2>15. CASE NewName(t)
    <3>1. CASE UNCHANGED vars
      BY <3>1 DEF vars
    <3>2. CASE \A u \in Receivers : aborted[u] = "no"
      <4>1. AbortType' /\ AbortsAreExplained'
        BY <2>15, <3>2 DEF NewName
      <4>2. pc'[t] = "read loader" /\ \A u \in Receivers : u # t => pc'[u] = pc[u]
        BY <2>15 DEF NewName, Go
      <4>3. UNCHANGED <<loader, method, methodID>>
        BY <2>15 DEF NewName
      <4>4. \A u \in Receivers : u \in ready' => methodID /\ (u \in ready \/ u = t)
        BY <2>15 DEF NewName
      <4>5. QED
        BY <4>1, <4>2, <4>3, <4>4
    <3>3. QED
      BY <3>1, <3>2 DEF Next
  <2>16. CASE NameAborts(t)
    <3>1. Abort(t, "exception pending") /\ "exception pending" \in Reasons
      BY <2>16 DEF NameAborts, Reasons
    <3>2. t \in pending
      BY <2>16 DEF NameAborts
    <3>3. QED
      BY <3>1, <3>2, AbortStep, AbortLookups
  <2>17. CASE ReadMethodID(t)
    BY <2>17 DEF ReadMethodID, Go
  <2>18. QED
    BY <1>11, <2>1, <2>2, <2>3, <2>4, <2>5, <2>6, <2>7, <2>8, <2>9, <2>10, <2>11, <2>12, <2>13, <2>14,
       <2>15, <2>16, <2>17 DEF Receiver
<1>12. CASE UNCHANGED vars
  BY <1>12 DEF vars
<1>13. QED
  BY <1>1, <1>2, <1>3, <1>4, <1>5, <1>6, <1>7, <1>8, <1>9, <1>10, <1>11, <1>12 DEF Next, UiThread

-----------------------------------------------------------------------------

Inv ==
  /\ ThreadType
  /\ Keyed
  /\ LoaderStored
  /\ LoaderIsValid
  /\ References
  /\ AbortType
  /\ Lookups
  /\ AbortsAreExplained

(* The invariant holds in every behaviour of the JNI layer. *)
THEOREM Invariance == Spec => []Inv
<1>1. Init => Inv
  BY DEF Init, Inv, ThreadType, Keyed, LoaderStored, LoaderIsValid, References, AbortType, Reasons, Lookups,
     AbortsAreExplained, InCall, Places, NoRef
<1>2. Inv /\ [Next]_vars => Inv'
  BY ThreadTypeStep, KeyedStep, LoaderStep, ReferencesStep, MethodStep DEF Inv
<1>3. QED
  BY <1>1, <1>2, PTL DEF Spec

(* A thread in a call is attached, and a thread that has ended is not: cacheEnv and *)
(* _detachCurrentThread pair up.                                                    *)
THEOREM AttachedThroughout == Spec => []AttachedWhileNeeded
<1>1. Inv => AttachedWhileNeeded
  BY DEF Inv, ThreadType, Keyed, AttachedWhileNeeded
<1>2. QED
  BY <1>1, Invariance, PTL

(* The loader that a receive thread has read stays valid under any number of onCreates. *)
THEOREM LoaderStaysValid == Spec => []LoaderIsValid
<1>1. Inv => LoaderIsValid
  BY DEF Inv
<1>2. QED
  BY <1>1, Invariance, PTL

(***************************************************************************)
(* A lookup that begins after a nativeSetContext has stored the loader and *)
(* the method never aborts the process for want of them, however many      *)
(* threads receive and however often onCreate runs; and a thread that      *)
(* aborts with an exception pending aborts with its own.                   *)
(***************************************************************************)
THEOREM AbortsExplained == Spec => []AbortsAreExplained
<1>1. Inv => AbortsAreExplained
  BY DEF Inv
<1>2. QED
  BY <1>1, Invariance, PTL

(* Between two PDUs the local references of a thread are those of its lookups that failed. *)
THEOREM ReferencesBalanced == Spec => []LocalsBalanced
<1>1. Inv => LocalsBalanced
  BY DEF Inv, References, LocalsBalanced
<1>2. QED
  BY <1>1, Invariance, PTL
-----------------------------------------------------------------------------
(* The memory of messages. *)

Bodies == {"body"} \X (1 .. MaxSend)

(* How many messages SendProto has copied. *)
copied == IF ui = "send" THEN sent - 1 ELSE sent

(* The message with the sender, if there is one, is the one before the queue's. *)
freed == IF sending = <<>> THEN copied - Len(queue) ELSE copied - Len(queue) - 1

(***************************************************************************)
(* The inductive invariant: messages leave in the order they were sent, so *)
(* that those not yet packed are the ones above freed, the sender has the  *)
(* first of them and the queue the others, and theirs are the bodies that  *)
(* are in memory.                                                          *)
(***************************************************************************)
MemoryInv ==
  /\ sent \in 0 .. MaxSend /\ copied \in Nat /\ freed \in Nat
  /\ queue \in Seq(Bodies)
  /\ \A i \in 1 .. Len(queue) : queue[i] = <<"body", copied - Len(queue) + i>>
  /\ sending # <<>> => sending = <<<<"body", copied - Len(queue)>>>>
  /\ \A m \in 1 .. MaxSend : <<"body", m>> \in live <=> freed < m /\ m <= copied

LEMMA MemoryStep == MemoryInv /\ [Next]_vars => MemoryInv'
<1> SUFFICES ASSUME MemoryInv, [Next]_vars PROVE MemoryInv'
  OBVIOUS
<1> USE DEF MemoryInv, copied, freed
<1>1. Len(queue) \in Nat /\ MaxSend \in Nat
  BY JniAssumption
<1>2. CASE UNCHANGED <<memory, copied>>
  BY <1>2 DEF memory
<1>3. CASE GetChars
  <2>1. /\ ui = "java" /\ ui' = "send" /\ sent' = sent + 1 /\ sent < MaxSend
        /\ live' = live \cup {<<"chars", sent'>>} /\ UNCHANGED <<queue, sending>>
    BY <1>3 DEF GetChars
  <2>2. copied' = copied /\ freed' = freed /\ sent' \in 0 .. MaxSend
    BY <1>1, <2>1
  <2>3. \A m \in 1 .. MaxSend : <<"body", m>> \in live' <=> <<"body", m>> \in live
    BY <2>1
  <2>4. QED
    BY <2>1, <2>2, <2>3
<1>4. CASE SendProto
  <2>1. /\ ui = "send" /\ ui' = "release" /\ UNCHANGED <<sent, sending>>
        /\ live' = live \cup {<<"body", sent>>}
        /\ queue' = Append(queue, <<"body", sent>>)
    BY <1>4 DEF SendProto
  <2>2. copied' = sent /\ copied = sent - 1 /\ sent \in 1 .. MaxSend
    BY <1>1, <2>1
  <2>3. /\ queue' \in Seq(Bodies) /\ Len(queue') = Len(queue) + 1
        /\ \A i \in 1 .. Len(queue) : queue'[i] = queue[i]
        /\ queue'[Len(queue) + 1] = <<"body", sent>>
    BY <2>1, <2>2 DEF Bodies
  <2>4. copied' - Len(queue') = copied - Len(queue) /\ freed' = freed
    BY <1>1, <2>1, <2>2, <2>3
  <2>5. \A i \in 1 .. Len(queue') : queue'[i] = <<"body", copied' - Len(queue') + i>>
    <3> SUFFICES ASSUME NEW i \in 1 .. Len(queue')
                 PROVE  queue'[i] = <<"body", copied' - Len(queue') + i>>
      OBVIOUS
    <3>1. CASE i = Len(queue) + 1
      BY <3>1, <1>1, <2>2, <2>3
    <3>2. CASE i \in 1 .. Len(queue)
      BY <3>2, <2>3, <2>4
    <3>3. QED
      BY <1>1, <2>3, <3>1, <3>2
  <2>6. ASSUME NEW m \in 1 .. MaxSend
        PROVE  <<"body", m>> \in live' <=> freed' < m /\ m <= copied'
    <3>1. <<"body", m>> \in live' <=> m = sent \/ <<"body", m>> \in live
      BY <2>1
    <3>2. <<"body", m>> \in live <=> freed < m /\ m <= copied
      OBVIOUS
    <3>3. freed <= copied
      BY <1>1
    <3>4. QED
      BY <1>1, <2>2, <2>4, <3>1, <3>2, <3>3
  <2>7. QED
    BY <2>1, <2>2, <2>3, <2>4, <2>5, <2>6
<1>5. CASE ReleaseChars
  <2>1. /\ ui = "release" /\ ui' = "java" /\ UNCHANGED <<queue, sending, sent>>
        /\ live' = live \ {<<"chars", sent>>}
    BY <1>5 DEF ReleaseChars
  <2>2. \A m \in 1 .. MaxSend : <<"body", m>> \in live' <=> <<"body", m>> \in live
    BY <2>1
  <2>3. QED
    BY <2>1, <2>2
<1>6. CASE TakePdu
  <2>1. /\ sending = <<>> /\ queue # <<>> /\ UNCHANGED <<live, sent, ui>>
        /\ sending' = <<Head(queue)>> /\ queue' = Tail(queue)
    BY <1>6 DEF TakePdu
  <2>2. /\ Len(queue) > 0 /\ Head(queue) = queue[1]
        /\ queue' \in Seq(Bodies) /\ Len(queue') = Len(queue) - 1
        /\ \A i \in 1 .. Len(queue') : queue'[i] = queue[i + 1]
    BY <2>1
  <2>3. UNCHANGED copied /\ copied' - Len(queue') = copied - Len(queue) + 1
    BY <1>1, <2>1, <2>2
  <2>4. sending' # <<>> /\ sending' = <<<<"body", copied' - Len(queue')>>>>
    BY <1>1, <2>1, <2>2, <2>3
  <2>5. freed' = freed
    BY <1>1, <2>1, <2>2, <2>3, <2>4
  <2>6. \A i \in 1 .. Len(queue') : queue'[i] = <<"body", copied' - Len(queue') + i>>
    <3> SUFFICES ASSUME NEW i \in 1 .. Len(queue')
                 PROVE  queue'[i] = <<"body", copied' - Len(queue') + i>>
      OBVIOUS
    <3>1. i + 1 \in 1 .. Len(queue)
      BY <1>1, <2>2
    <3> HIDE DEF copied
    <3>2. copied \in Nat /\ i \in Nat /\ copied' = copied /\ Len(queue') = Len(queue) - 1
      BY <1>1, <2>2, <2>3
    <3>3. copied - Len(queue) + (i + 1) = copied' - Len(queue') + i
      BY <1>1, <3>2
    <3>4. QED
      BY <2>2, <3>1, <3>3
  <2>7. QED
    BY <2>1, <2>2, <2>3, <2>4, <2>5, <2>6
<1>7. CASE PackPdu
  <2>1. /\ sending # <<>> /\ sending' = <<>> /\ UNCHANGED <<queue, sent, ui>>
        /\ live' = live \ {sending[1]}
    BY <1>7 DEF PackPdu
  <2>2. UNCHANGED copied /\ freed' = freed + 1 /\ sending[1] = <<"body", freed + 1>>
    BY <1>1, <2>1
  <2>3. ASSUME NEW m \in 1 .. MaxSend
        PROVE  <<"body", m>> \in live' <=> freed' < m /\ m <= copied'
    <3>1. <<"body", m>> \in live' <=> m # freed + 1 /\ <<"body", m>> \in live
      BY <2>1, <2>2
    <3> HIDE DEF copied, freed
    <3>2. <<"body", m>> \in live <=> freed < m /\ m <= copied
      OBVIOUS
    <3>3. freed \in Nat /\ copied' = copied /\ freed' = freed + 1
      BY <2>2
    <3>4. QED
      BY <3>1, <3>2, <3>3
  <2>4. QED
    BY <2>1, <2>2, <2>3
<1>8. CASE OnCreate \/ SetContextFails \/ StoreLoader \/ StoreMethod
  BY <1>2, <1>8 DEF memory, OnCreate, SetContextFails, StoreLoader, StoreMethod
<1>9. ASSUME NEW t \in Receivers, TcpFromJNI(t) \/ Receiver(t) PROVE MemoryInv'
  BY <1>2, <1>9 DEF memory, lookup, TcpFromJNI, Receiver, ConReceivePdu, CacheEnv, CacheEnvFails,
     NewName, NameAborts, ReadClassLoader, ReadMethodID, ClassAborts, LoadClass, LoadClassFails,
     FindMethod, FindMethodFails, NewArrayAborts, CallJava, EndReceive, ThreadExit, ExitAborts, Abort
<1>10. CASE UNCHANGED vars
  BY <1>2, <1>10 DEF vars, memory
<1>11. QED
  BY <1>3, <1>4, <1>5, <1>6, <1>7, <1>8, <1>9, <1>10 DEF Next, UiThread

LEMMA MemoryImplies == MemoryInv => QueuedBodiesLive
<1> SUFFICES ASSUME MemoryInv PROVE QueuedBodiesLive
  OBVIOUS
<1> USE DEF MemoryInv
<1>1. /\ Len(queue) \in Nat /\ MaxSend \in Nat /\ DOMAIN queue = 1 .. Len(queue)
      /\ copied <= MaxSend
  BY JniAssumption DEF copied
<1>2. freed + Len(queue) <= copied
  BY <1>1 DEF freed
<1>3. ASSUME NEW i \in DOMAIN queue PROVE queue[i] \in live
  <2> DEFINE m == copied - Len(queue) + i
  <2>1. m \in 1 .. MaxSend /\ freed < m /\ m <= copied
    BY <1>1, <1>2
  <2>2. queue[i] = <<"body", m>>
    BY <1>1
  <2>3. QED
    BY <2>1, <2>2
<1>4. ASSUME NEW i \in DOMAIN sending PROVE sending[i] \in live
  <2> DEFINE m == copied - Len(queue)
  <2>1. sending # <<>>
    BY <1>4
  <2>2. i = 1 /\ sending[i] = <<"body", m>>
    BY <2>1, <1>4
  <2>3. m \in 1 .. MaxSend /\ freed < m /\ m <= copied
    BY <1>1, <2>1 DEF freed
  <2>4. QED
    BY <2>2, <2>3
<1>5. ASSUME NEW m \in 1 .. MaxSend, <<"body", m>> \in live
      PROVE  \/ \E i \in DOMAIN queue : queue[i] = <<"body", m>>
             \/ \E i \in DOMAIN sending : sending[i] = <<"body", m>>
  <2>1. freed < m /\ m <= copied
    BY <1>5
  <2>2. CASE m > copied - Len(queue)
    <3> DEFINE i == m - (copied - Len(queue))
    <3>1. i \in DOMAIN queue /\ copied - Len(queue) + i = m
      BY <1>1, <2>1, <2>2
    <3>2. queue[i] = <<"body", m>>
      BY <1>1, <3>1
    <3>3. QED
      BY <3>1, <3>2
  <2>3. CASE m <= copied - Len(queue)
    <3>1. sending # <<>>
      BY <1>1, <2>1, <2>3 DEF freed
    <3>2. freed = copied - Len(queue) - 1 /\ copied \in Nat
      BY <3>1 DEF freed
    <3>3. m = copied - Len(queue)
      <4> HIDE DEF MemoryInv
      <4>1. m \in Nat /\ Len(queue) \in Nat
        BY <1>1
      <4>2. QED
        BY <2>1, <2>3, <3>2, <4>1
    <3>4. 1 \in DOMAIN sending /\ sending[1] = <<"body", m>>
      BY <3>1, <3>3
    <3>5. QED
      BY <3>4
  <2>4. QED
    BY <1>1, <2>2, <2>3
<1>6. QED
  BY <1>3, <1>4, <1>5 DEF QueuedBodiesLive

(* However far the senders are behind the user, what they pack is in memory, and nothing else is kept. *)
THEOREM BodiesStayLive == Spec => []QueuedBodiesLive
<1>1. Init => MemoryInv
  <2> SUFFICES ASSUME Init PROVE MemoryInv
    OBVIOUS
  <2>1. queue \in Seq(Bodies)
    BY DEF Init
  <2>2. sent = 0 /\ ui = "java" /\ sending = <<>> /\ live = {} /\ Len(queue) = 0
    BY DEF Init
  <2>3. copied = 0 /\ freed = 0
    BY <2>2 DEF copied, freed
  <2>4. QED
    BY <2>1, <2>2, <2>3, JniAssumption DEF MemoryInv
<1>2. QED
  BY <1>1, MemoryStep, MemoryImplies, PTL DEF Spec
=============================================================================
