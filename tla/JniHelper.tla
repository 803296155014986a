------------------------------ MODULE JniHelper ------------------------------
(***************************************************************************)
(* The JNI layer: the UI thread, which calls nativeSetContext from every   *)
(* onCreate, starts connections and sends; the receive threads of the      *)
(* client, which hand each PDU to Java through ConReceivePdu; and a sender *)
(* that takes what the UI thread has queued.  A receive thread is a native *)
(* thread: it attaches to the VM at its first PDU, keeps its environment   *)
(* under g_key, and is detached by the destructor of that key.  The class  *)
(* loader and its method are two globals without a lock.                   *)
(*                                                                         *)
(* What JNI refuses (a call with an exception pending, or on a null        *)
(* reference) aborts the process.                                          *)
(***************************************************************************)
EXTENDS Integers, Sequences

CONSTANTS
  Receivers,    \* the receive threads, one for each connection
  MaxCreate,    \* bound: calls of onCreate
  MaxPdu,       \* bound: PDUs of a receive thread
  MaxSend       \* bound: messages the user sends; message m is the m-th

ASSUME JniAssumption == MaxCreate \in Nat /\ MaxPdu \in Nat /\ MaxSend \in Nat

NoRef == 0

VARIABLES
  classLoader,  \* _classLoader: a global reference, or NoRef
  methodID,     \* is _methodID set
  globals,      \* the global references that are not deleted
  created,      \* how many calls of onCreate there were
  ui,           \* where the UI thread is
  pc,           \* where each receive thread is
  attached,     \* the receive threads the VM knows
  key,          \* the receive threads with an environment under g_key
  loader,       \* the class loader a thread has read, or NoRef
  method,       \* the threads that have read a _methodID that is set
  ready,        \* history: threads whose lookup began after _methodID was set
  locals,       \* how many local references a thread holds
  pending,      \* the threads with an exception pending
  got, missed,  \* PDUs of a thread, and those without onReceivePdu found
  live,         \* the memory of messages that is not freed
  queue,        \* the m_queue of the client: the memory its PDUs refer to
  sending,      \* the PDU with the sender, or an empty sequence
  sent,         \* how many messages the user has sent
  aborted       \* why a thread aborted the process, or "no"

loading == <<classLoader, methodID, globals>>
lookup == <<loader, method, ready>>
thread == <<attached, key, lookup, locals, pending, got, missed>>
memory == <<live, queue, sending, sent>>
vars == <<loading, created, ui, pc, thread, memory, aborted>>

(* JNI_OnLoad has run: the key exists, and nothing is set. *)
Init ==
  /\ classLoader = NoRef /\ methodID = FALSE /\ globals = {}
  /\ created = 0
  /\ ui = "java"
  /\ pc = [t \in Receivers |-> "none"]
  /\ attached = {} /\ key = {}
  /\ loader = [t \in Receivers |-> NoRef]
  /\ method = {}
  /\ ready = {}
  /\ locals = [t \in Receivers |-> 0]
  /\ pending = {}
  /\ got = [t \in Receivers |-> 0]
  /\ missed = [t \in Receivers |-> 0]
  /\ live = {} /\ queue = <<>> /\ sending = <<>> /\ sent = 0
  /\ aborted = [t \in Receivers |-> "no"]

Abort(t, why) ==
  /\ aborted' = [aborted EXCEPT ![t] = why]
  /\ UNCHANGED <<loading, created, ui, pc, thread, memory>>

-----------------------------------------------------------------------------
(* The UI thread: setClassLoaderFrom, called from onCreate. *)

OnCreate ==
  /\ ui = "java"
  /\ created < MaxCreate
  /\ created' = created + 1
  /\ ui' = "set context"
  /\ UNCHANGED <<loading, pc, thread, memory, aborted>>

(* Faulty variant: the old reference is forgotten. *)
SetContextFailsClearing ==
  /\ ui = "set context"
  /\ classLoader' = NoRef
  /\ ui' = "java"
  /\ UNCHANGED <<methodID, globals, created, pc, thread, memory, aborted>>

(* A class, a method or the loader is not found: false, which nobody looks at. *)
SetContextFails ==
  /\ ui = "set context"
  /\ ui' = "java"
  /\ UNCHANGED <<loading, created, pc, thread, memory, aborted>>

(* Faulty variant: the reference of the onCreate before is deleted. *)
StoreLoaderDeletingOld ==
  /\ ui = "set context"
  /\ classLoader' = created
  /\ globals' = (globals \ {classLoader}) \cup {created}
  /\ ui' = "set method"
  /\ UNCHANGED <<methodID, created, pc, thread, memory, aborted>>

(* _classLoader = NewGlobalRef(obj): the reference before is not deleted. *)
StoreLoader ==
  /\ ui = "set context"
  /\ classLoader' = created
  /\ globals' = globals \cup {created}
  /\ ui' = "set method"
  /\ UNCHANGED <<methodID, created, pc, thread, memory, aborted>>

(* _methodID = class_loader.methodID *)
StoreMethod ==
  /\ ui = "set method"
  /\ methodID' = TRUE
  /\ ui' = "java"
  /\ UNCHANGED <<classLoader, globals, created, pc, thread, memory, aborted>>

-----------------------------------------------------------------------------
(* The UI thread: tcpFromJNI, sendString and sendBytes. *)

(* A connection is made, and its thread receives. *)
TcpFromJNI(t) ==
  /\ ui = "java"
  /\ created > 0
  /\ pc[t] = "none"
  /\ pc' = [pc EXCEPT ![t] = "receive"]
  /\ UNCHANGED <<loading, created, ui, thread, memory, aborted>>

(* GetStringUTFChars, GetByteArrayElements: the characters of the message. *)
GetChars ==
  /\ ui = "java"
  /\ created > 0
  /\ sent < MaxSend
  /\ sent' = sent + 1
  /\ live' = live \cup {<<"chars", sent'>>}
  /\ ui' = "send"
  /\ UNCHANGED <<loading, created, pc, thread, queue, sending, aborted>>

(* Faulty variant: the PDU refers to the characters. *)
SendProtoByReference ==
  /\ ui = "send"
  /\ queue' = Append(queue, <<"chars", sent>>)
  /\ ui' = "release"
  /\ UNCHANGED <<loading, created, pc, thread, live, sending, sent, aborted>>

(* SendProto: the PDU that is queued has a copy in memory of its own. *)
SendProto ==
  /\ ui = "send"
  /\ live' = live \cup {<<"body", sent>>}
  /\ queue' = Append(queue, <<"body", sent>>)
  /\ ui' = "release"
  /\ UNCHANGED <<loading, created, pc, thread, sending, sent, aborted>>

(* ReleaseStringUTFChars, ReleaseByteArrayElements *)
ReleaseChars ==
  /\ ui = "release"
  /\ live' = live \ {<<"chars", sent>>}
  /\ ui' = "java"
  /\ UNCHANGED <<loading, created, pc, thread, queue, sending, sent, aborted>>

(* A sender of the client: the PDU leaves the queue, is packed, and is gone. *)
TakePdu ==
  /\ sending = <<>>
  /\ queue # <<>>
  /\ sending' = <<Head(queue)>>
  /\ queue' = Tail(queue)
  /\ UNCHANGED <<loading, created, ui, pc, thread, live, sent, aborted>>

PackPdu ==
  /\ sending # <<>>
  /\ live' = live \ {sending[1]}
  /\ sending' = <<>>
  /\ UNCHANGED <<loading, created, ui, pc, thread, queue, sent, aborted>>

-----------------------------------------------------------------------------
(* A receive thread: ConReceivePdu. *)

Go(t, to) == pc' = [pc EXCEPT ![t] = to]

Count(f, t) == [f EXCEPT ![t] = @ + 1]

(* A PDU arrives, and getEnv looks under g_key. *)
ConReceivePdu(t) ==
  /\ pc[t] = "receive"
  /\ got[t] < MaxPdu
  /\ got' = Count(got, t)
  /\ Go(t, IF t \in key THEN "class" ELSE "attach")
  /\ UNCHANGED <<loading, created, ui, attached, key, lookup, locals, pending, missed, memory, aborted>>

(* Faulty variant: the environment is not kept under the key. *)
CacheEnvWithoutKey(t) ==
  /\ pc[t] = "attach"
  /\ attached' = attached \cup {t}
  /\ Go(t, "class")
  /\ UNCHANGED <<loading, created, ui, key, lookup, locals, pending, got, missed, memory, aborted>>

(* cacheEnv: the thread attaches, and the environment is kept. *)
CacheEnv(t) ==
  /\ pc[t] = "attach"
  /\ attached' = attached \cup {t}
  /\ key' = key \cup {t}
  /\ Go(t, "class")
  /\ UNCHANGED <<loading, created, ui, lookup, locals, pending, got, missed, memory, aborted>>

(* AttachCurrentThread fails, and the PDU is dropped. *)
CacheEnvFails(t) ==
  /\ pc[t] = "attach"
  /\ Go(t, "receive")
  /\ UNCHANGED <<loading, created, ui, thread, memory, aborted>>

(* _getClassID: NewStringUTF makes the name of the class. *)
NewName(t) ==
  /\ pc[t] = "class"
  /\ t \notin pending
  /\ locals' = Count(locals, t)
  /\ ready' = IF methodID THEN ready \cup {t} ELSE ready
  /\ Go(t, "read loader")
  /\ UNCHANGED <<loading, created, ui, attached, key, loader, method, pending, got, missed, memory, aborted>>

(* The exception of an earlier onReceivePdu is still pending. *)
NameAborts(t) ==
  /\ pc[t] = "class"
  /\ t \in pending
  /\ Abort(t, "exception pending")

(* The arguments of CallObjectMethod, from left to right: _classLoader, set or not, *)
ReadClassLoader(t) ==
  /\ pc[t] = "read loader"
  /\ loader' = [loader EXCEPT ![t] = classLoader]
  /\ Go(t, "read method")
  /\ UNCHANGED <<loading, created, ui, attached, key, method, ready, locals, pending, got, missed,
                 memory, aborted>>

(* and then _methodID, set or not. *)
ReadMethodID(t) ==
  /\ pc[t] = "read method"
  /\ method' = IF methodID THEN method \cup {t} ELSE method \ {t}
  /\ Go(t, "load class")
  /\ UNCHANGED <<loading, created, ui, attached, key, loader, ready, locals, pending, got, missed,
                 memory, aborted>>

CanLoad(t) == loader[t] # NoRef /\ t \in method

(* CallObjectMethod on what was read, whatever the globals hold by now. *)
ClassAborts(t) ==
  /\ pc[t] = "load class"
  /\ ~CanLoad(t)
  /\ Abort(t, "no class loader")

(* loadClass returns the class; the reference of its name is deleted. *)
LoadClass(t) ==
  /\ pc[t] = "load class"
  /\ CanLoad(t)
  /\ Go(t, "method")
  /\ UNCHANGED <<loading, created, ui, thread, memory, aborted>>

(* Faulty variant: the reference of the name is forgotten. *)
LoadClassFailsLeaking(t) ==
  /\ pc[t] = "load class"
  /\ CanLoad(t)
  /\ Go(t, "receive")
  /\ UNCHANGED <<loading, created, ui, thread, memory, aborted>>

(* ClassNotFoundException, which is cleared: the PDU is dropped. *)
LoadClassFails(t) ==
  /\ pc[t] = "load class"
  /\ CanLoad(t)
  /\ locals' = [locals EXCEPT ![t] = @ - 1]
  /\ Go(t, "receive")
  /\ UNCHANGED <<loading, created, ui, attached, key, lookup, pending, got, missed, memory, aborted>>

FindMethod(t) ==
  /\ pc[t] = "method"
  /\ Go(t, "call")
  /\ UNCHANGED <<loading, created, ui, thread, memory, aborted>>

(* onReceivePdu is not found: the PDU is dropped, the class reference stays. *)
FindMethodFails(t) ==
  /\ pc[t] = "method"
  /\ missed' = Count(missed, t)
  /\ Go(t, "receive")
  /\ UNCHANGED <<loading, created, ui, attached, key, lookup, locals, pending, got, memory, aborted>>

(* NewByteArray fails: null goes to SetByteArrayRegion. *)
NewArrayAborts(t) == pc[t] = "call" /\ Abort(t, "out of memory")

(* The array is made and filled, onReceivePdu called, both references deleted. *)
CallJava(t) ==
  /\ pc[t] = "call"
  /\ locals' = [locals EXCEPT ![t] = @ - 1]
  /\ pending' \in {pending, pending \cup {t}}
  /\ Go(t, "receive")
  /\ UNCHANGED <<loading, created, ui, attached, key, lookup, got, missed, memory, aborted>>

-----------------------------------------------------------------------------
(* The connection ends, and with it the thread: the destructor of the key. *)

EndReceive(t) ==
  /\ pc[t] = "receive"
  /\ Go(t, "exit")
  /\ UNCHANGED <<loading, created, ui, thread, memory, aborted>>

(* _detachCurrentThread, if there is a value; it frees the local references. *)
ThreadExit(t) ==
  /\ pc[t] = "exit"
  /\ t \notin pending
  /\ attached' = attached \ (key \cap {t})
  /\ key' = key \ {t}
  /\ locals' = [locals EXCEPT ![t] = IF t \in key THEN 0 ELSE @]
  /\ Go(t, "ended")
  /\ UNCHANGED <<loading, created, ui, lookup, pending, got, missed, memory, aborted>>

(* The exception of onReceivePdu is now uncaught. *)
ExitAborts(t) ==
  /\ pc[t] = "exit"
  /\ t \in pending
  /\ Abort(t, "exception pending")

UiThread ==
  \/ OnCreate \/ SetContextFails \/ StoreLoader \/ StoreMethod
  \/ GetChars \/ SendProto \/ ReleaseChars
  \/ \E t \in Receivers : TcpFromJNI(t)

Receiver(t) ==
  \/ ConReceivePdu(t) \/ CacheEnv(t) \/ CacheEnvFails(t)
  \/ NewName(t) \/ NameAborts(t) \/ ReadClassLoader(t) \/ ReadMethodID(t) \/ ClassAborts(t)
  \/ LoadClass(t) \/ LoadClassFails(t)
  \/ FindMethod(t) \/ FindMethodFails(t) \/ NewArrayAborts(t) \/ CallJava(t)
  \/ EndReceive(t) \/ ThreadExit(t) \/ ExitAborts(t)

Next ==
  /\ \A t \in Receivers : aborted[t] = "no"
  /\ UiThread \/ TakePdu \/ PackPdu \/ \E t \in Receivers : Receiver(t)

Spec == Init /\ [][Next]_vars

-----------------------------------------------------------------------------
(* Properties. *)

InCall == {"class", "read loader", "read method", "load class", "method", "call"}

(***************************************************************************)
(* An environment is used by the thread it belongs to, and only while that *)
(* thread is attached: whoever is in a call is attached, and what is under *)
(* g_key is of an attached thread.  A thread that has ended is detached,   *)
(* however its connection ended: the VM aborts when one is not.            *)
(***************************************************************************)
AttachedWhileNeeded ==
  \A t \in Receivers :
    /\ t \in key \/ pc[t] \in InCall => t \in attached
    /\ pc[t] = "ended" => t \notin attached

(***************************************************************************)
(* The class loader is replaced by the UI thread at every onCreate, while  *)
(* receive threads are between reading _classLoader and calling loadClass  *)
(* on it.  The reference they have read is never deleted under them.       *)
(***************************************************************************)
LoaderIsValid ==
  \A t \in Receivers :
    pc[t] \in {"read method", "load class"} /\ loader[t] # NoRef => loader[t] \in globals

(***************************************************************************)
(* A lookup that begins after a nativeSetContext has succeeded finds a     *)
(* class loader and its method: neither a later onCreate that fails nor    *)
(* one that is storing anew can take them away.  A lookup that began       *)
(* before may have read the loader too early, and aborts the process even  *)
(* when all is set by then (JniHelper.cpp:228 reads without a lock).  The  *)
(* other exception is Java's, and of the thread that it aborts.            *)
(***************************************************************************)
AbortsAreExplained ==
  \A t \in Receivers :
    /\ aborted[t] = "no class loader" => t \notin ready
    /\ aborted[t] = "exception pending" => t \in pending

(***************************************************************************)
(* The local references of a native thread are freed at its end only.      *)
(* Between two PDUs a thread holds one for each time that onReceivePdu was *)
(* not found (JniHelper.cpp:136 returns without deleting the class), and   *)
(* no other, whichever call failed on the way.                             *)
(***************************************************************************)
LocalsBalanced == \A t \in Receivers : pc[t] = "receive" => locals[t] = missed[t]

(***************************************************************************)
(* The UI thread gives the characters of a message back to the VM while    *)
(* the message may still be queued.  No PDU in the queue or with a sender  *)
(* refers to memory that is gone, and none is kept longer than needed.     *)
(***************************************************************************)
QueuedBodiesLive ==
  /\ \A i \in DOMAIN queue : queue[i] \in live
  /\ \A i \in DOMAIN sending : sending[i] \in live
  /\ \A m \in 1 .. MaxSend : <<"body", m>> \in live =>
       \/ \E i \in DOMAIN queue : queue[i] = <<"body", m>>
       \/ \E i \in DOMAIN sending : sending[i] = <<"body", m>>
=============================================================================
