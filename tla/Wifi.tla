-------------------------------- MODULE Wifi --------------------------------
(***************************************************************************)
(* ports/esp-idf/wifi.c: the one static interface, whose state follows the *)
(* station of ESP-IDF through events that its event loop delivers later.   *)
(* The station (radio, link, the events it posts) is external.  One task   *)
(* makes the calls; the event loop's task runs between any two of its      *)
(* accesses to the state, which no lock guards.                            *)
(***************************************************************************)
EXTENDS Naturals, Sequences

CONSTANTS
    CallbackCapacity,  \* WIFI_EVENT_CALLBACK_CAPACITY
    WifiMaxEvents          \* bound on the posted events

VARIABLES
    wifiState,             \* esp_iface.state
    ip,                \* ip_info holds an address
    callbacks,         \* event_type of each registered callback
    wifiTold,              \* the last connection event each callback got
    handlers,          \* the event handlers are registered
    radio, wifiLink,       \* external: "off" "init" "started"; "down" "trying" "up"
    posted,            \* external: the event loop's queue
    wpc,               \* where connect_wifi is: "idle", "config" or "attempt"
    refused,           \* ghost: the attempt was refused after CONNECTING was set
    overtaken,         \* ghost: CONNECTING was written over CONNECTED
    abandoned          \* ghost: wifi_delete before the station had stopped

wifiConn == <<wpc, refused, overtaken>>
wifiDriver == <<wifiState, ip, callbacks, wifiTold, handlers, wifiConn, abandoned>>
wifiVars == <<wifiDriver, radio, wifiLink, posted>>

WifiInit ==
    /\ wifiState = "unknown" /\ ip = FALSE
    /\ callbacks = <<>> /\ wifiTold = <<>> /\ handlers = FALSE
    /\ radio = "off" /\ wifiLink = "down" /\ posted = <<>>
    /\ wpc = "idle" /\ refused = FALSE /\ overtaken = FALSE /\ abandoned = FALSE

-----------------------------------------------------------------------------
Post(evts) == Len(posted) + Len(evts) <= WifiMaxEvents /\ posted' = posted \o evts

\* The access point answers, refuses or goes away.
Station ==
    /\ \/ wifiLink = "trying" /\ wifiLink' = "up" /\ Post(<<"got_ip">>)
       \/ wifiLink # "down" /\ wifiLink' = "down" /\ Post(<<"disconnected">>)
    /\ UNCHANGED <<wifiDriver, radio>>

-----------------------------------------------------------------------------
\* raise_event_with_data for the connection events; the others change nothing here.
RaiseEvent(evt) ==
    wifiTold' = [i \in DOMAIN wifiTold |-> IF callbacks[i] \in {evt, "any"} THEN evt ELSE wifiTold[i]]

\* A bug the runs must notice: the address survives the disconnection.
OnDisconnectedKeep ==
    /\ wifiState' = "started"
    /\ RaiseEvent("disconnected")
    /\ UNCHANGED ip

OnDisconnected ==
    /\ wifiState' = "started"
    /\ ip' = FALSE
    /\ RaiseEvent("disconnected")

HandleConnected ==
    /\ wifiState' = "connected"
    /\ ip' = TRUE
    /\ RaiseEvent("connected")

\* A scan's results and its end are only raised.
HandleScanDone == UNCHANGED <<wifiState, ip, wifiTold>>

OnWifiEvents(evt) ==
    \/ evt = "start" /\ wifiState' = "started" /\ UNCHANGED <<ip, wifiTold>>
    \/ evt = "stop" /\ wifiState' = "stopped" /\ UNCHANGED <<ip, wifiTold>>
    \/ evt = "disconnected" /\ OnDisconnected
    \/ evt = "scan_done" /\ HandleScanDone

OnIpEvents(evt) == evt = "got_ip" /\ HandleConnected

Deliver ==
    /\ posted # <<>>
    /\ posted' = Tail(posted)
    /\ IF handlers THEN OnWifiEvents(Head(posted)) \/ OnIpEvents(Head(posted))
                   ELSE UNCHANGED <<wifiState, ip, wifiTold>>
    /\ refused' = (refused /\ wifiState' = "connecting")
    /\ overtaken' = (overtaken /\ wifiState' = "connecting")
    /\ UNCHANGED <<callbacks, handlers, radio, wifiLink, wpc, abandoned>>

-----------------------------------------------------------------------------
\* esp_wifi_deinit refuses while the station is started; nobody looks.
Deinitialize == radio' = (IF radio = "started" THEN "started" ELSE "off")

CreateOk ==
    /\ wpc = "idle" /\ wifiState = "unknown"
    /\ wifiState' = "starting"
    /\ handlers' = TRUE
    /\ radio' = (IF radio = "off" THEN "init" ELSE radio)
    /\ UNCHANGED <<ip, callbacks, wifiTold, wifiLink, posted, wifiConn, abandoned>>

\* The handlers, or the interface after them, could not be set up.
CreateFail ==
    /\ wpc = "idle" /\ wifiState = "unknown"
    /\ handlers' \in {handlers, TRUE}
    /\ Deinitialize
    /\ UNCHANGED <<wifiState, ip, callbacks, wifiTold, wifiLink, posted, wifiConn, abandoned>>

WifiDelete ==
    /\ wpc = "idle" /\ wifiState # "unknown"
    /\ Deinitialize
    /\ wifiState' = "unknown"
    /\ abandoned' = (abandoned \/ radio = "started" \/ posted # <<>>)
    /\ UNCHANGED <<ip, callbacks, wifiTold, handlers, wifiLink, posted, wifiConn>>

\* connect_wifi in three steps: the test of the state, the CONNECTING written
\* after esp_wifi_set_config returned, and the attempt, which may be refused.
WifiConnect ==
    /\ wpc = "idle" /\ wifiState \notin {"unknown", "connecting", "connected"}
    /\ wpc' = "config"
    /\ UNCHANGED <<wifiState, ip, callbacks, wifiTold, handlers, radio, wifiLink, posted,
                   refused, overtaken, abandoned>>

WifiConfigure ==
    /\ wpc = "config"
    /\ \/ /\ wifiState' = "connecting" /\ wpc' = "attempt"
          /\ refused' = FALSE /\ overtaken' = (wifiState = "connected")
       \/ wpc' = "idle" /\ UNCHANGED <<wifiState, refused, overtaken>>  \* -EINVAL
    /\ UNCHANGED <<ip, callbacks, wifiTold, handlers, radio, wifiLink, posted, abandoned>>

WifiAttempt ==
    /\ wpc = "attempt" /\ wpc' = "idle"
    /\ \/ radio = "started" /\ wifiLink' = (IF wifiLink = "down" THEN "trying" ELSE wifiLink) /\ UNCHANGED refused
       \/ UNCHANGED wifiLink /\ refused' = TRUE
    /\ UNCHANGED <<wifiState, ip, callbacks, wifiTold, handlers, radio, posted, overtaken, abandoned>>

WifiDisconnect ==
    /\ wpc = "idle" /\ wifiState \in {"connecting", "connected"}
    /\ radio = "started"
    /\ wifiLink # "down" /\ wifiLink' = "down" /\ Post(<<"disconnected">>)
    /\ UNCHANGED <<wifiDriver, radio>>

WifiScan ==
    /\ wpc = "idle" /\ wifiState # "unknown" /\ radio = "started"
    /\ Post(<<"scan_done">>)
    /\ UNCHANGED <<wifiDriver, radio, wifiLink>>

WifiEnable ==
    /\ wpc = "idle" /\ wifiState # "unknown" /\ radio = "init"
    /\ radio' = "started" /\ Post(<<"start">>)
    /\ UNCHANGED <<wifiDriver, wifiLink>>

WifiDisable ==
    /\ wpc = "idle" /\ wifiState # "unknown" /\ radio = "started"
    /\ radio' = "init" /\ wifiLink' = "down"
    /\ Post(IF wifiLink = "down" THEN <<"stop">> ELSE <<"disconnected", "stop">>)
    /\ UNCHANGED wifiDriver

RegisterEventCallback ==
    /\ wpc = "idle" /\ wifiState # "unknown" /\ Len(callbacks) < CallbackCapacity
    /\ \E evt \in {"any", "connected"} : callbacks' = Append(callbacks, evt)
    /\ wifiTold' = Append(wifiTold, "none")
    /\ UNCHANGED <<wifiState, ip, handlers, radio, wifiLink, posted, wifiConn, abandoned>>

WifiNext ==
    \/ CreateOk \/ CreateFail \/ WifiDelete \/ WifiConnect \/ WifiConfigure \/ WifiAttempt
    \/ WifiDisconnect \/ WifiScan \/ WifiEnable \/ WifiDisable \/ RegisterEventCallback
    \/ Deliver \/ Station

WifiSpec == WifiInit /\ [][WifiNext]_wifiVars

-----------------------------------------------------------------------------
\* The driver's state is CONNECTED while a link is up, but for the one connect_wifi
\* that let GOT_IP in between its test of the state and its write of CONNECTING.
StateFollowsLink ==
    /\ wifiState = "connected" => wifiLink = "up"
    /\ wifiLink = "up" => wifiState = "connected" \/ (wifiState = "connecting" /\ overtaken)
    /\ wifiState = "connecting" /\ ~refused /\ wpc # "attempt" =>
            wifiLink = (IF overtaken THEN "up" ELSE "trying")

\* Once the posted events are delivered, the driver's picture of the link is
\* right in whatever order calls and events came and wherever the event task
\* meets connect_wifi: it holds an address exactly while the link is up, a
\* callback for all events that last heard `connected' is not misled, and,
\* unless the interface was deleted under a running station, its state is
\* CONNECTED only then and CONNECTING only during an attempt, after one that was
\* refused, or where connect_wifi wrote it over a CONNECTED it had not seen.
LinkKnown ==
    posted = <<>> =>
        /\ ip <=> wifiLink = "up"
        /\ \A i \in DOMAIN wifiTold : callbacks[i] = "any" /\ wifiTold[i] = "connected" => wifiLink = "up"
        /\ abandoned \/ StateFollowsLink

\* Not so (wifi.c:262-284): a link that is up with no event left, yet in a state
\* that says CONNECTING until the access point goes away; wifi_connect refuses
\* with -EISCONN either way.
StateKnown ==
    posted = <<>> /\ ~abandoned /\ wifiLink = "up" => wifiState = "connected"
=============================================================================
