------------------------------ MODULE MCPorts -------------------------------
(***************************************************************************)
(* Small instances of the modules that drive hardware or a peer: the BLE   *)
(* and Wi-Fi drivers (BleEsp, BleNrf, Wifi), the XMODEM receiver (Xmodem), *)
(* the buffers of the management server (MgmtPool) and the drivers of the  *)
(* ESP port (EspDrivers).  One module explores them side by side: sel,     *)
(* chosen in the initial state, says which of them runs, so their state    *)
(* spaces add up and do not multiply.  They are extended: the properties   *)
(* of the run are theirs.                                                  *)
(***************************************************************************)
EXTENDS Xmodem, MgmtPool, BleNrf, BleEsp, Wifi, EspDrivers, FiniteSets

VARIABLE
    sel     \* the module whose behaviours this one explores

-----------------------------------------------------------------------------
Parts ==
    {"BleEsp", "BleNrf", "Wifi", "Xmodem", "MgmtPool",
     "uart", "i2c", "spi", "pwm", "apptmr"}

SuiteInit ==
    /\ sel \in Parts
    /\ BleInit /\ NrfInit /\ WifiInit /\ Init /\ MgmtInit /\ EspInit
    /\ sel # "MgmtPool" => mgmt_pool = Bufs

\* A step of the selected module; every other stays in its initial state.
SuiteNext ==
    /\ UNCHANGED sel
    /\ IF sel = "BleEsp" THEN BleNext ELSE UNCHANGED bleVars
    /\ IF sel = "BleNrf" THEN NrfNext ELSE UNCHANGED nrfVars
    /\ IF sel = "Wifi" THEN WifiNext ELSE UNCHANGED wifiVars
    /\ IF sel = "Xmodem" THEN Next ELSE UNCHANGED vars
    /\ IF sel = "MgmtPool" THEN MgmtNext ELSE UNCHANGED mgmtVars
    /\ IF sel = "uart" THEN UartNext ELSE UNCHANGED uartVars
    /\ IF sel = "i2c" THEN I2cNext ELSE UNCHANGED i2cVars
    /\ IF sel = "spi" THEN SpiNext ELSE UNCHANGED spiVars
    /\ IF sel = "pwm" THEN PwmNext ELSE UNCHANGED pwmVars
    /\ IF sel = "apptmr" THEN TmrNext ELSE UNCHANGED tmrVars

suiteVars == <<sel, bleVars, nrfVars, wifiVars, vars, mgmtVars, espVars>>

\* The Bluetooth host's task and the receiver's loop run, and time goes on.
SuiteSpec ==
    /\ SuiteInit /\ [][SuiteNext]_suiteVars
    /\ WF_bleVars(sel = "BleEsp" /\ AdvStarted)
    /\ WF_bleVars(sel = "BleEsp" /\ HostSync)
    /\ WF_vars(sel = "Xmodem" /\ Receiver)
    /\ WF_vars(sel = "Xmodem" /\ Elapse)

-----------------------------------------------------------------------------
\* xmodem_receive returns, whatever the line does.
ReceiveReturns == sel = "Xmodem" => ReceiverEnds
=============================================================================
