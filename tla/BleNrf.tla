------------------------------- MODULE BleNrf -------------------------------
(***************************************************************************)
(* ports/nrf52/ble.c: the BLE interface over Nordic's SoftDevice, which is *)
(* external: it hands out attribute handles when characteristics are added *)
(* and reports GAP events and requests for attributes through              *)
(* on_ble_events.  Every call of it may fail.                              *)
(***************************************************************************)
EXTENDS Naturals, Sequences, FiniteSets, FiniteSetsExt

CONSTANTS
    Services, Capacity,     \* capacity of each service
    MaxHandle,              \* attribute handles the SoftDevice may give out
    Conns,                  \* connection handles
    NoHandler

ASSUME NrfAssumption == Capacity \in Nat

VARIABLES
    nrfOnair,      \* self->onair
    nrfConn,       \* self->connection_handle
    nrfSvc,        \* nrfSvc[s] = [created, index, handlers]
    svcList,       \* self->svc, newest first
    nrfAdv,        \* self->adv: [init, min, duration, active]
    nrfGiven,      \* external: attribute handles given out, to which handler
    nrfLinked,     \* external: the connections that exist
    nrfReplies,    \* ghost: replies to the request that is being handled
    nrfServed      \* ghost: [handle, func] of the last request, and who served it

nrfVars == <<nrfOnair, nrfConn, nrfSvc, svcList, nrfAdv, nrfGiven, nrfLinked, nrfReplies, nrfServed>>

\* Handlers are told apart by the service and the place they were added at.
NrfEmpty == [handle |-> 0, func |-> NoHandler]
NoSvc == [created |-> FALSE, index |-> 0, handlers |-> [i \in 1..Capacity |-> NrfEmpty]]

NrfInit ==
    /\ nrfOnair = FALSE
    /\ nrfConn = 0
    /\ nrfSvc = [s \in Services |-> NoSvc]
    /\ svcList = <<>>
    /\ nrfAdv = [init |-> FALSE, duration |-> 0, active |-> FALSE]
    /\ nrfGiven = <<>>
    /\ nrfLinked = {}
    /\ nrfReplies = 0
    /\ nrfServed = [wanted |-> NoHandler, got |-> NoHandler]

\* enable_device: initialize_softdevice, _gap and _gatt, each of which may fail.
NrfEnable(ok) ==
    /\ ~nrfOnair
    /\ nrfOnair' = ok
    /\ UNCHANGED <<nrfConn, nrfSvc, svcList, nrfAdv, nrfGiven, nrfLinked, nrfReplies, nrfServed>>

\* adv_init clears whatever an advertisement in progress was configured with.
NrfAdvInit ==
    /\ nrfAdv' = [init |-> TRUE, duration |-> 0, active |-> nrfAdv.active]
    /\ UNCHANGED <<nrfOnair, nrfConn, nrfSvc, svcList, nrfGiven, nrfLinked, nrfReplies, nrfServed>>

NrfAdvSetDuration(ms) ==
    /\ nrfAdv' = [nrfAdv EXCEPT !.duration = ms]
    /\ UNCHANGED <<nrfOnair, nrfConn, nrfSvc, svcList, nrfGiven, nrfLinked, nrfReplies, nrfServed>>

NrfAdvStart ==
    /\ nrfOnair /\ nrfAdv.init
    /\ nrfAdv' = [nrfAdv EXCEPT !.active = TRUE]
    /\ UNCHANGED <<nrfOnair, nrfConn, nrfSvc, svcList, nrfGiven, nrfLinked, nrfReplies, nrfServed>>

NrfAdvStop ==
    /\ nrfAdv' = [nrfAdv EXCEPT !.active = FALSE]
    /\ UNCHANGED <<nrfOnair, nrfConn, nrfSvc, svcList, nrfGiven, nrfLinked, nrfReplies, nrfServed>>

-----------------------------------------------------------------------------
\* gatt_create_service clears the memory it is given before it asks the SoftDevice.
NrfCreateService(s, ok) ==
    /\ nrfOnair /\ ~nrfSvc[s].created
    /\ nrfSvc' = [nrfSvc EXCEPT ![s] = [NoSvc EXCEPT !.created = ok]]
    /\ UNCHANGED <<nrfOnair, nrfConn, svcList, nrfAdv, nrfGiven, nrfLinked, nrfReplies, nrfServed>>

NrfRegisterService(s) ==
    /\ nrfSvc[s].created
    /\ \A i \in DOMAIN svcList : svcList[i] # s
    /\ svcList' = <<s>> \o svcList
    /\ UNCHANGED <<nrfOnair, nrfConn, nrfSvc, nrfAdv, nrfGiven, nrfLinked, nrfReplies, nrfServed>>

\* A bug the runs must notice: the slot of a characteristic is not used up.
SvcChrAllocStuck(svc) == IF svc.index < Capacity THEN [svc EXCEPT !.index = 1] ELSE svc

SvcChrAlloc(svc) == IF svc.index < Capacity THEN [svc EXCEPT !.index = @ + 1] ELSE svc

\* gatt_add_characteristic: the slot stays used, with handle 0, when the
\* SoftDevice refuses the characteristic.
NrfAddCharacteristic(s, ok) ==
    LET svc == SvcChrAlloc(nrfSvc[s])
        func == <<s, svc.index>>
        handle == Len(nrfGiven) + 1
    IN  /\ nrfSvc[s].created
        /\ nrfSvc[s].index < Capacity
        /\ handle <= MaxHandle
        /\ nrfSvc' = [nrfSvc EXCEPT ![s] = [svc EXCEPT
                !.handlers[svc.index] = [handle |-> IF ok THEN handle ELSE 0, func |-> func]]]
        /\ nrfGiven' = IF ok THEN Append(nrfGiven, <<s, nrfSvc[s].index + 1>>) ELSE nrfGiven
        /\ UNCHANGED <<nrfOnair, nrfConn, svcList, nrfAdv, nrfLinked, nrfReplies, nrfServed>>

\* find_chr_by_handle: the first match, service by service.
FindChr(handle) ==
    LET hits == {p \in (DOMAIN svcList) \X (1..Capacity) :
                    nrfSvc[svcList[p[1]]].handlers[p[2]].handle = handle}
        first == CHOOSE p \in hits : \A q \in hits :
                    p[1] < q[1] \/ (p[1] = q[1] /\ p[2] <= q[2])
    IN  IF hits = {} THEN NoHandler ELSE nrfSvc[svcList[first[1]]].handlers[first[2]].func

\* on_ble_events with an authorize request: the handler is called, and a write is
\* answered afterwards; a read is left to the handler, which may have
\* answered (gatt_response), and a request nobody is found for is not answered.
RwRequest(handle, write, responds) ==
    LET func == FindChr(handle) IN
    /\ nrfLinked # {}
    /\ handle \in DOMAIN nrfGiven
    /\ \E i \in DOMAIN svcList : svcList[i] = nrfGiven[handle][1]
    /\ nrfServed' = [wanted |-> nrfGiven[handle], got |-> func]
    /\ nrfReplies' = IF func = NoHandler THEN 0
                  ELSE (IF responds THEN 1 ELSE 0) + (IF write THEN 1 ELSE 0)
    /\ UNCHANGED <<nrfOnair, nrfConn, nrfSvc, svcList, nrfAdv, nrfGiven, nrfLinked>>

\* on_ble_events with a GAP event.  A disconnection leaves connection_handle.
GapConnected(c) ==
    /\ nrfAdv.active /\ c \notin nrfLinked
    /\ nrfConn' = c
    /\ nrfLinked' = nrfLinked \cup {c}
    /\ nrfAdv' = [nrfAdv EXCEPT !.active = FALSE]
    /\ UNCHANGED <<nrfOnair, nrfSvc, svcList, nrfGiven, nrfReplies, nrfServed>>

GapDisconnected(c) ==
    /\ c \in nrfLinked
    /\ nrfLinked' = nrfLinked \ {c}
    /\ UNCHANGED <<nrfOnair, nrfConn, nrfSvc, svcList, nrfAdv, nrfGiven, nrfReplies, nrfServed>>

AdvTerminated ==
    /\ nrfAdv.active /\ nrfAdv.duration > 0
    /\ nrfAdv' = [nrfAdv EXCEPT !.active = FALSE]
    /\ UNCHANGED <<nrfOnair, nrfConn, nrfSvc, svcList, nrfGiven, nrfLinked, nrfReplies, nrfServed>>

NrfNext ==
    \/ \E ok \in BOOLEAN : NrfEnable(ok)
    \/ NrfAdvInit \/ NrfAdvStart \/ NrfAdvStop \/ AdvTerminated
    \/ \E ms \in {0, 10} : NrfAdvSetDuration(ms)
    \/ \E s \in Services, ok \in BOOLEAN : NrfCreateService(s, ok) \/ NrfAddCharacteristic(s, ok)
    \/ \E s \in Services : NrfRegisterService(s)
    \/ \E h \in 1..MaxHandle, write, responds \in BOOLEAN : RwRequest(h, write, responds)
    \/ \E c \in Conns : GapConnected(c) \/ GapDisconnected(c)

NrfSpec == NrfInit /\ [][NrfNext]_nrfVars

-----------------------------------------------------------------------------
\* A request for an attribute reaches the handler its characteristic was added
\* with, whatever was added before or after it, to which service and with
\* which failures in between.
RequestReachesItsHandler == nrfServed.got = nrfServed.wanted
=============================================================================
