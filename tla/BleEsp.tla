------------------------------- MODULE BleEsp -------------------------------
(***************************************************************************)
(* ports/esp-idf/ble.c: the BLE interface over the NimBLE host.  The host  *)
(* is external: it runs in a task of its own once it has been started,     *)
(* reports synchronisation, and hands GAP events to on_gap_event in order. *)
(* The application calls the interface from one other task.                *)
(***************************************************************************)
EXTENDS Naturals, Sequences, FiniteSets

CONSTANTS
    BleHandles,      \* connection handles of the host; 0 is none
    NrChrs,       \* characteristics a service is created for
    MemCap, ChrSize, UuidSize, HandlerSize,   \* memory of a service, in words
    BleMaxEvents,    \* bound on events not yet handled
    Mtus

VARIABLES
    host,         \* external: "off", "init", "running", "synced"
    advActive,    \* external: the host is advertising
    bleLinks,        \* external: established connections
    gapEvents,       \* external: GAP events on their way to on_gap_event
    onair, ready, \* the globals of the port
    bleAdv,          \* self->adv: [mode, duration]
    bleConn, mtu,    \* self->connection_handle, self->mtu
    waiting,      \* the application is in the loop of adv_start
    svc,          \* the service: [index, free, added, broken]
    bleTold,         \* what the application was last told by a callback or a result
    wantAdv,      \* ghost: adv_start succeeded for ever and neither the application,
                  \* a connection nor the end of the time asked for ended it
    lapsed        \* ghost: on_gap_event found advertising over and left it so, and it
                  \* has not been started since

hostVars == <<host, advActive, bleLinks, gapEvents>>
selfVars == <<onair, ready, bleAdv, bleConn, mtu, waiting>>
bleVars == <<host, advActive, bleLinks, gapEvents, onair, ready, bleAdv, bleConn, mtu, waiting, svc, bleTold, wantAdv, lapsed>>

Modes == {"ind", "direct", "nonconn", "scan"}
Durations == {"forever", "limited"}
Connectable(mode) == mode \in {"ind", "direct"}
NoService == [index |-> 0, free |-> 0, added |-> FALSE, broken |-> FALSE]

BleInit ==
    /\ host = "off" /\ advActive = FALSE /\ bleLinks = {} /\ gapEvents = <<>>
    /\ onair = FALSE /\ ready = FALSE
    /\ bleAdv = [mode |-> "ind", duration |-> "limited"]
    /\ bleConn = 0 /\ mtu = 0 /\ waiting = FALSE
    /\ svc = NoService
    /\ bleTold = "none" /\ wantAdv = FALSE /\ lapsed = FALSE

-----------------------------------------------------------------------------
\* enable_device and initialize: a second enable changes nothing.
BleEnable ==
    /\ ~waiting /\ ~onair
    /\ onair' = TRUE
    /\ host' = "init"
    /\ UNCHANGED <<advActive, bleLinks, gapEvents, ready, bleAdv, bleConn, mtu, waiting, svc, bleTold, wantAdv, lapsed>>

\* disable_device stops the host and leaves `ready' as it was.
BleDisable ==
    /\ ~waiting /\ onair
    /\ onair' = FALSE
    /\ host' = "off" /\ advActive' = FALSE /\ bleLinks' = {} /\ gapEvents' = <<>>
    /\ wantAdv' = FALSE
    /\ UNCHANGED <<ready, bleAdv, bleConn, mtu, waiting, svc, bleTold, lapsed>>

AdvInit(mode) ==
    /\ ~waiting
    /\ bleAdv' = [mode |-> mode, duration |-> "forever"]
    /\ UNCHANGED <<host, advActive, bleLinks, gapEvents, onair, ready, bleConn, mtu, waiting, svc, bleTold, wantAdv, lapsed>>

AdvSetDuration(d) ==
    /\ ~waiting
    /\ bleAdv' = [bleAdv EXCEPT !.duration = d]
    /\ wantAdv' = (wantAdv /\ d = "forever")
    /\ UNCHANGED <<host, advActive, bleLinks, gapEvents, onair, ready, bleConn, mtu, waiting, svc, bleTold, lapsed>>

\* The part of adv_start after the loop.  The host takes data and parameters only
\* when it is synchronised and not advertising already, and may refuse them then.
AdvGo ==
    \/ /\ host = "synced" /\ ~advActive
       /\ advActive' = TRUE /\ wantAdv' = (bleAdv.duration = "forever")
    \/ UNCHANGED <<advActive, wantAdv>>

\* adv_start starts the host's task the first time, and then waits for on_sync.
AdvStart ==
    /\ ~waiting /\ onair
    /\ IF ready
         THEN AdvGo /\ UNCHANGED <<host, waiting>>
         ELSE /\ host' = IF host = "init" THEN "running" ELSE host
              /\ waiting' = TRUE
              /\ UNCHANGED <<advActive, wantAdv>>
    /\ lapsed' = (lapsed /\ ~advActive')
    /\ UNCHANGED <<bleLinks, gapEvents, onair, ready, bleAdv, bleConn, mtu, svc, bleTold>>

AdvStarted ==
    /\ waiting /\ ready
    /\ waiting' = FALSE
    /\ AdvGo
    /\ lapsed' = (lapsed /\ ~advActive')
    /\ UNCHANGED <<host, bleLinks, gapEvents, onair, ready, bleAdv, bleConn, mtu, svc, bleTold>>

AdvStop ==
    /\ ~waiting
    /\ advActive' = FALSE
    /\ wantAdv' = FALSE
    /\ UNCHANGED <<host, bleLinks, gapEvents, onair, ready, bleAdv, bleConn, mtu, waiting, svc, bleTold, lapsed>>

\* gatt_notify and update_conn_param address the connection the port knows of.
Notify ==
    /\ ~waiting /\ onair
    /\ bleTold' = IF bleConn \in bleLinks THEN "sent" ELSE "no_connection"
    /\ UNCHANGED <<hostVars, selfVars, svc, wantAdv, lapsed>>

-----------------------------------------------------------------------------
\* svc_mem_init and svc_mem_alloc.  Asking for more than is left gives NULL,
\* which copy_uuid writes through.
SvcAlloc(s, size) ==
    IF s.free + size <= MemCap THEN [s EXCEPT !.free = @ + size]
    ELSE [s EXCEPT !.broken = TRUE]

CreateService ==
    /\ ~waiting /\ ~svc.added
    /\ svc' = SvcAlloc(SvcAlloc(SvcAlloc(NoService, UuidSize), (NrChrs + 1) * ChrSize),
                       NrChrs * HandlerSize)
    /\ UNCHANGED <<hostVars, selfVars, bleTold, wantAdv, lapsed>>

AddCharacteristic ==
    /\ ~waiting /\ ~svc.added /\ svc.free > 0 /\ ~svc.broken
    /\ svc.index < NrChrs
    /\ svc' = [SvcAlloc(svc, UuidSize) EXCEPT !.index = @ + 1]
    /\ UNCHANGED <<hostVars, selfVars, bleTold, wantAdv, lapsed>>

RegisterService ==
    /\ ~waiting /\ host = "init" /\ ~svc.broken
    /\ svc' = [svc EXCEPT !.added = TRUE]
    /\ UNCHANGED <<hostVars, selfVars, bleTold, wantAdv, lapsed>>

\* on_characteristic_request: the handler is found by the characteristic's place.
CharacteristicRequest(i) ==
    /\ host = "synced" /\ bleLinks # {} /\ svc.added
    /\ bleTold' = IF i < svc.index THEN "request" ELSE bleTold
    /\ UNCHANGED <<hostVars, selfVars, svc, wantAdv, lapsed>>

-----------------------------------------------------------------------------
\* External: what the host does by itself.

\* A bug the runs must notice: on_sync does not tell the waiting caller.
HostSyncUnready ==
    /\ host = "running"
    /\ host' = "synced"
    /\ UNCHANGED <<ready, advActive, bleLinks, gapEvents, onair, bleAdv, bleConn, mtu, waiting, svc, bleTold, wantAdv, lapsed>>

HostSync ==
    /\ host = "running"
    /\ host' = "synced"
    /\ ready' = onair            \* on_sync asserts onair
    /\ UNCHANGED <<advActive, bleLinks, gapEvents, onair, bleAdv, bleConn, mtu, waiting, svc, bleTold, wantAdv, lapsed>>

Emit(e) == Len(gapEvents) < BleMaxEvents /\ gapEvents' = Append(gapEvents, e)

HostConnect(h) ==
    /\ advActive /\ Connectable(bleAdv.mode) /\ h \notin bleLinks
    /\ advActive' = FALSE
    /\ \E ok \in BOOLEAN :
         /\ wantAdv' = (wantAdv /\ ~ok)
         /\ Emit([type |-> IF ok THEN "connect" ELSE "connect_failed", handle |-> h])
         /\ bleLinks' = IF ok THEN bleLinks \cup {h} ELSE bleLinks
    /\ UNCHANGED <<host, onair, ready, bleAdv, bleConn, mtu, waiting, svc, bleTold, lapsed>>

HostEvent(h, type) ==
    /\ h \in bleLinks
    /\ Emit([type |-> type, handle |-> h])
    /\ bleLinks' = IF type = "disconnect" THEN bleLinks \ {h} ELSE bleLinks
    /\ UNCHANGED <<host, advActive, onair, ready, bleAdv, bleConn, mtu, waiting, svc, bleTold, wantAdv, lapsed>>

HostAdvComplete(type) ==
    /\ advActive
    /\ advActive' = FALSE
    /\ Emit([type |-> type, handle |-> 0])
    /\ wantAdv' = (wantAdv /\ type = "adv_error")
    /\ UNCHANGED <<host, bleLinks, onair, ready, bleAdv, bleConn, mtu, waiting, svc, bleTold, lapsed>>

\* A bug the runs must notice: advertising that failed is not resumed.
OnGapEventNoResume ==
    /\ host = "synced" /\ gapEvents # <<>>
    /\ gapEvents' = Tail(gapEvents)
    /\ bleTold' = Head(gapEvents).type
    /\ bleConn' = CASE Head(gapEvents).type = "connect" -> Head(gapEvents).handle
                 [] Head(gapEvents).type = "disconnect" -> 0
                 [] OTHER -> bleConn
    /\ \E m \in Mtus : mtu' = IF Head(gapEvents).type = "mtu" THEN m ELSE mtu
    /\ UNCHANGED <<host, advActive, bleLinks, onair, ready, bleAdv, waiting, svc, wantAdv, lapsed>>

\* on_gap_event.  An encryption failure ends the connection; advertising that
\* was to last for ever and stopped with an error is started again here, and
\* what adv_start returns is not looked at.
OnGapEvent ==
    LET e == Head(gapEvents) IN
    /\ host = "synced" /\ gapEvents # <<>>
    /\ bleTold' = e.type
    /\ bleConn' = CASE e.type = "connect" -> e.handle
                 [] e.type = "disconnect" -> 0
                 [] OTHER -> bleConn
    /\ \E m \in Mtus : mtu' = IF e.type = "mtu" THEN m ELSE mtu
    /\ IF e.type = "enc_failed" /\ e.handle \in bleLinks
         THEN /\ bleLinks' = bleLinks \ {e.handle}
              /\ gapEvents' = Append(Tail(gapEvents), [type |-> "disconnect", handle |-> e.handle])
         ELSE gapEvents' = Tail(gapEvents) /\ UNCHANGED bleLinks
    /\ IF e.type = "adv_error" /\ bleAdv.duration = "forever" THEN AdvGo
       ELSE UNCHANGED <<advActive, wantAdv>>
    /\ lapsed' = IF e.type \in {"adv_error", "connect_failed"} THEN ~advActive' ELSE lapsed
    /\ UNCHANGED <<host, onair, ready, bleAdv, waiting, svc>>

BleApp ==
    \/ BleEnable \/ BleDisable \/ AdvStart \/ AdvStop \/ Notify
    \/ CreateService \/ AddCharacteristic \/ RegisterService
    \/ \E mode \in Modes : AdvInit(mode)
    \/ \E d \in Durations : AdvSetDuration(d)

BleHost ==
    \/ \E i \in 0..NrChrs-1 : CharacteristicRequest(i)
    \/ \E h \in BleHandles : HostConnect(h)
    \/ \E h \in BleHandles, type \in {"disconnect", "mtu", "enc_failed"} : HostEvent(h, type)
    \/ \E type \in {"adv_done", "adv_error"} : HostAdvComplete(type)

BleNext == BleApp \/ AdvStarted \/ HostSync \/ OnGapEvent \/ BleHost

\* The host's task is scheduled, and so is the caller of adv_start.
BleSpec == BleInit /\ [][BleNext]_bleVars /\ WF_bleVars(AdvStarted) /\ WF_bleVars(HostSync)

-----------------------------------------------------------------------------
\* Advertising started for ever goes on until the application stops it, changes
\* its duration or disables the device, a connection takes it over or the host
\* reports it complete: whenever the host has no event left to hand over, it is
\* advertising, or on_gap_event was told that it had stopped, by an error and the
\* host refused to start it again, or by a connection that failed.
AdvertisesForever == wantAdv /\ gapEvents = <<>> => advActive \/ lapsed

\* Not so: on_gap_event does not look at what adv_start returns, and does not call
\* it after a connection that failed.
AdvertisesAlways == wantAdv /\ gapEvents = <<>> => advActive

\* The loop in adv_start that waits for the host ends.
AdvStartReturns == waiting ~> ~waiting
=============================================================================
