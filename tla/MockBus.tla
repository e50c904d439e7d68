------------------------------- MODULE MockBus -------------------------------
(***************************************************************************)
(* The mock bus, src/mock/mod.rs, under tasks whose calls overlap.  Each   *)
(* of its parts has a lock of its own, held for one access only, so a call *)
(* is the sequence of its accesses: publish records the call under one     *)
(* lock and stores the response under the next; send_header records the    *)
(* header, looks the response up, and injects the frame with the list of   *)
(* subscribers locked while it pushes.  Each lock is taken at an await: a   *)
(* caller may give the call up there, and what it has done so far stays.   *)
(*                                                                         *)
(* Unlike VirtualBus it takes any id in publish, keeps no checksum type    *)
(* (each frame is Enhanced), looks at no filter and leaves closed channels *)
(* in its list; a payload is one of a set, with its length.                *)
(***************************************************************************)
EXTENDS SubInner, Functions, SequencesExt

CONSTANTS
    Tasks,          \* callers
    Subs,           \* subscriber channels that may be attached
    Ids,            \* the ids of the calls
    Payloads,       \* their payloads, records with a length
    Options,        \* the SubscriberOptions of every channel
    MaxCalls        \* bound: calls begun

ASSUME MockAssumption ==
    /\ Ids \subseteq Nat
    /\ Payloads \subseteq [len : Nat, v : STRING] /\ \A d \in Payloads : d.v # "None"
    /\ Options \in SubscriberOptions /\ Options.rateLimit = 0

VARIABLES
    responses,      \* a function on the ids that have one
    published,      \* the record of publish calls
    sent_headers,   \* the record of headers
    subscribers,    \* the list of channels
    closed,
    subClosed,      \* SubInner.closed of each channel
    queue,          \* SubInner.queue of each channel
    call,           \* what each task runs, and where in it
    calls,          \* history: calls begun
    unsure,         \* history: ids whose last record may not be what is stored:
                    \* publish calls overlapped, or one was dropped between its
                    \* locks, and none has recorded alone since
    stale           \* history: what each call of send_header may still find

dataVars == <<responses, published, sent_headers>>
subVars == <<subscribers, subClosed, queue>>
vars == <<dataVars, subVars, closed, call, calls, unsure, stale>>

LIN_MAX_ID == 63
LIN_MAX_DATA_LEN == 8
NoData == [len |-> 0, v |-> "None"]
Idle == [op |-> "idle", at |-> "", id |-> 0, data |-> NoData]

Init ==
    /\ responses = <<>>
    /\ published = <<>>
    /\ sent_headers = <<>>
    /\ subscribers = <<>>
    /\ closed = FALSE
    /\ subClosed = [s \in Subs |-> FALSE]
    /\ queue = [s \in Subs |-> <<>>]
    /\ call = [t \in Tasks |-> Idle]
    /\ calls = 0
    /\ unsure = {}
    /\ stale = [t \in Tasks |-> {}]

-----------------------------------------------------------------------------
At(t, op, at) == call[t].op = op /\ call[t].at = at
Goto(t, at) == call' = [call EXCEPT ![t].at = at]
Return(t) == call' = [call EXCEPT ![t] = Idle]

\* What a header for id finds at this moment.
Found(id) == IF id \in DOMAIN responses THEN {responses[id]} ELSE {NoData}

\* Another task publishes the same id.
Joined(t, id) == \E u \in Tasks \ {t} : call[u].op = "publish" /\ call[u].id = id

\* The start of a call.
Begin(t, c) ==
    /\ call[t] = Idle /\ calls < MaxCalls
    /\ call' = [call EXCEPT ![t] = c]
    /\ calls' = calls + 1
    /\ unsure' = IF c.op = "publish" /\ Joined(t, c.id) THEN unsure \cup {c.id} ELSE unsure
    /\ stale' = [stale EXCEPT ![t] = IF c.op = "send_header" THEN Found(c.id) ELSE {c.data}]
    /\ UNCHANGED <<dataVars, subVars, closed>>

Call(op, id, data) == [op |-> op, at |-> "check", id |-> id, data |-> data]
BeginAny(t) ==
    \/ \E id \in Ids, d \in Payloads \cup {NoData} : Begin(t, Call("publish", id, d))
    \/ \E id \in Ids : Begin(t, Call("send_header", id, NoData))
    \/ \E op \in {"subscribe", "close", "reset"} : Begin(t, Call(op, 0, NoData))
    \/ \E id \in Ids, d \in Payloads : Begin(t, [Call("inject", id, d) EXCEPT !.at = "inject"])

\* A call that ends before it has done anything: the bus is closed, the
\* payload too long, the id out of range.
Refused(c) ==
    \/ closed
    \/ c.op = "publish" /\ c.data.len > LIN_MAX_DATA_LEN
    \/ c.op = "send_header" /\ c.id > LIN_MAX_ID

Check(t) ==
    /\ call[t].op \in {"publish", "send_header", "subscribe"} /\ call[t].at = "check"
    /\ IF Refused(call[t]) THEN Return(t) ELSE Goto(t, "record")
    /\ UNCHANGED <<dataVars, subVars, closed, calls, unsure, stale>>

-----------------------------------------------------------------------------
(***************************************************************************)
(* publish                                                                 *)
(***************************************************************************)
Record(t) ==
    /\ At(t, "publish", "record")
    /\ published' = Append(published, [id |-> call[t].id, data |-> call[t].data])
    /\ unsure' = IF Joined(t, call[t].id) THEN unsure ELSE unsure \ {call[t].id}
    /\ Goto(t, "store")
    /\ UNCHANGED <<responses, sent_headers, subVars, closed, calls, stale>>

\* Faulty variant: a response that is there is kept (entry().or_insert).
StoredFirst(id, data) ==
    IF data = NoData THEN Restrict(responses, DOMAIN responses \ {id})
    ELSE [i \in DOMAIN responses \cup {id} |-> IF i \in DOMAIN responses THEN responses[i] ELSE data]

Stored(id, data) ==
    IF data = NoData THEN Restrict(responses, DOMAIN responses \ {id})
    ELSE [i \in DOMAIN responses \cup {id} |-> IF i = id THEN data ELSE responses[i]]

Store(t) ==
    /\ At(t, "publish", "store")
    /\ responses' = Stored(call[t].id, call[t].data)
    /\ stale' = [u \in Tasks |->
                    IF call[u].op = "send_header" /\ call[u].id = call[t].id
                    THEN stale[u] \cup {call[t].data} ELSE stale[u]]
    /\ Return(t)
    /\ UNCHANGED <<published, sent_headers, subVars, closed, calls, unsure>>

-----------------------------------------------------------------------------
(***************************************************************************)
(* send_header and inject                                                  *)
(***************************************************************************)
RecordHeader(t) ==
    /\ At(t, "send_header", "record")
    /\ sent_headers' = Append(sent_headers, call[t].id)
    /\ Goto(t, "lookup")
    /\ UNCHANGED <<responses, published, subVars, closed, calls, unsure, stale>>

\* The response is copied and its lock released: what is injected is the copy.
LookUp(t) ==
    /\ At(t, "send_header", "lookup")
    /\ IF call[t].id \in DOMAIN responses
       THEN call' = [call EXCEPT ![t].at = "inject", ![t].data = responses[call[t].id]]
       ELSE Return(t)
    /\ UNCHANGED <<dataVars, subVars, closed, calls, unsure, stale>>

\* Channels that are closed, and frames there is no room for, are passed over.
Pushed(s, f) ==
    IF ~subClosed[s] /\ HasRoom(queue[s], Options.capacity, Options.policy)
    THEN Enqueue(queue[s], f, Options.capacity, Options.policy)
    ELSE queue[s]

\* Faulty variant: the frame is built of what is stored now.
InjectedNow(t) ==
    [id |-> call[t].id,
     data |-> IF call[t].id \in DOMAIN responses THEN responses[call[t].id] ELSE NoData,
     found |-> stale[t]]

Injected(t) == [id |-> call[t].id, data |-> call[t].data, found |-> stale[t]]

\* inject, called by send_header or by the test itself, on an open bus or a
\* closed one; the list is locked throughout.
Inject(t) ==
    /\ call[t].at = "inject"
    /\ queue' = [s \in Subs |-> IF s \in ToSet(subscribers) THEN Pushed(s, Injected(t)) ELSE queue[s]]
    /\ Return(t)
    /\ UNCHANGED <<dataVars, subscribers, subClosed, closed, calls, unsure, stale>>

-----------------------------------------------------------------------------
(***************************************************************************)
(* subscribe, close, reset, and the subscribers                            *)
(***************************************************************************)
\* A bus closed since the check gets the channel all the same.
Attach(t) ==
    /\ At(t, "subscribe", "record")
    /\ \E s \in Subs \ ToSet(subscribers) : subscribers' = Append(subscribers, s)
    /\ Return(t)
    /\ UNCHANGED <<dataVars, subClosed, queue, closed, calls, unsure, stale>>

CloseFlag(t) ==
    /\ At(t, "close", "check")
    /\ closed' = TRUE
    /\ IF closed THEN Return(t) ELSE Goto(t, "sweep")
    /\ UNCHANGED <<dataVars, subVars, calls, unsure, stale>>

CloseSweep(t) ==
    /\ At(t, "close", "sweep")
    /\ subClosed' = [s \in Subs |-> subClosed[s] \/ s \in ToSet(subscribers)]
    /\ Return(t)
    /\ UNCHANGED <<dataVars, subscribers, queue, closed, calls, unsure, stale>>

\* reset clears one record after the other, and neither the responses nor
\* anything of the channels.
ResetPublished(t) ==
    /\ At(t, "reset", "check")
    /\ published' = <<>>
    /\ Goto(t, "headers")
    /\ UNCHANGED <<responses, sent_headers, subVars, closed, calls, unsure, stale>>

ResetHeaders(t) ==
    /\ At(t, "reset", "headers")
    /\ sent_headers' = <<>>
    /\ Return(t)
    /\ UNCHANGED <<responses, published, subVars, closed, calls, unsure, stale>>

(***************************************************************************)
(* A call given up at one of its awaits, each of which is for a lock it    *)
(* does not get any more: a publish recorded and not stored, a header      *)
(* recorded and not answered, a close that has set the flag and closed no  *)
(* channel, a reset of one record of the two.                              *)
(***************************************************************************)
Waits(c) ==
    \/ c.at \in {"record", "store", "lookup", "inject", "sweep", "headers"}
    \/ c.op = "reset" /\ c.at = "check"
Cancel(t) ==
    /\ Waits(call[t])
    /\ unsure' = IF At(t, "publish", "store") THEN unsure \cup {call[t].id} ELSE unsure
    /\ Return(t)
    /\ UNCHANGED <<dataVars, subVars, closed, calls, stale>>

Pop(s) ==
    /\ queue[s] # <<>>
    /\ queue' = [queue EXCEPT ![s] = Tail(@)]
    /\ UNCHANGED <<dataVars, subscribers, subClosed, closed, call, calls, unsure, stale>>

Next ==
    \/ \E t \in Tasks :
        \/ BeginAny(t) \/ Check(t) \/ Record(t) \/ Store(t)
        \/ RecordHeader(t) \/ LookUp(t) \/ Inject(t)
        \/ Attach(t) \/ CloseFlag(t) \/ CloseSweep(t) \/ ResetPublished(t) \/ ResetHeaders(t)
        \/ Cancel(t)
    \/ \E s \in Subs : Pop(s)

Spec == Init /\ [][Next]_vars

-----------------------------------------------------------------------------
Publishing(id) == \E t \in Tasks : call[t].op = "publish" /\ call[t].id = id
LastRecord(id, i) ==
    /\ published[i].id = id
    /\ \A j \in i + 1 .. Len(published) : published[j].id # id

\* What a test reads is what the bus answers with: the last call on record is
\* the one whose payload is stored, whatever reset, close and the other ids do
\* between the two locks of publish (mock/mod.rs:103-112) -- unless publish
\* calls for the id overlapped, or one was dropped between the two locks; and
\* then again once a publish call has recorded alone.
RecordAgrees ==
    \A id \in Ids \ unsure : \A i \in 1 .. Len(published) :
        ~Publishing(id) /\ LastRecord(id, i) => Found(id) = {published[i].data}

\* A subscriber never gets a payload nobody had registered: each frame carries
\* one that was stored at some moment of the send_header call that injected it,
\* though the response may be replaced or removed while the call is on its way
\* from its copy to the injection (mock/mod.rs:174-192).
AnswersCurrent ==
    \A s \in Subs : \A f \in ToSet(queue[s]) : f.data \in f.found \ {NoData}
=============================================================================
