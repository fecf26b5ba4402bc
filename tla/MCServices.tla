---------------------------- MODULE MCServices ----------------------------
(***************************************************************************)
(* Six parts of the application that share no state, checked in one run: a *)
(* behaviour is one of the parts at work while the others rest, since what *)
(* two of them do in between says nothing of either.                       *)
(***************************************************************************)
EXTENDS ConsolePool, HeldPool, RelayConsole, RceVideo, SideloadRelay, DetailStore

VARIABLE subject     \* the part at work

servicesVars == <<subject, poolVars, heldVars, relayVars, videoVars, relayRunVars, storeVars>>

ServicesTypeOK ==
  /\ PoolTypeOK /\ HeldTypeOK /\ RelayTypeOK /\ VideoTypeOK /\ RelayRunTypeOK /\ StoreTypeOK

ServicesInit ==
  /\ subject \in {"console pool", "held pool", "relay console", "video", "sideload", "store"}
  /\ PoolInit /\ HeldInit /\ RelayInit /\ VideoInit /\ RelayRunInit /\ StoreInit

ServicesNext ==
  /\ UNCHANGED subject
  /\ \/ /\ subject = "console pool" /\ PoolNext
        /\ UNCHANGED <<heldVars, relayVars, videoVars, relayRunVars, storeVars>>
     \/ /\ subject = "held pool" /\ HeldNext
        /\ UNCHANGED <<poolVars, relayVars, videoVars, relayRunVars, storeVars>>
     \/ /\ subject = "relay console" /\ RelayNext
        /\ UNCHANGED <<poolVars, heldVars, videoVars, relayRunVars, storeVars>>
     \/ /\ subject = "video" /\ VideoNext
        /\ UNCHANGED <<poolVars, heldVars, relayVars, relayRunVars, storeVars>>
     \/ /\ subject = "sideload" /\ RelayRunNext
        /\ UNCHANGED <<poolVars, heldVars, relayVars, videoVars, storeVars>>
     \/ /\ subject = "store" /\ StoreNext
        /\ UNCHANGED <<poolVars, heldVars, relayVars, videoVars, relayRunVars>>

ServicesSpec == ServicesInit /\ [][ServicesNext]_servicesVars /\ RelayRunFairness
=============================================================================
