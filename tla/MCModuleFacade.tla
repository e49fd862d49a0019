---------------------------- MODULE MCModuleFacade ----------------------------
(***************************************************************************)
(* A small instance of ModuleFacade: two modules, one of which shares its  *)
(* arenas; two methods with three planned buffers and one on a device.     *)
(***************************************************************************)
EXTENDS ModuleFacade, TLC

CONSTANTS alone, sharing, forward, encode, device, none

MCModules == {alone, sharing}
MCMethods == {forward, encode, device}
MCPlannedSizes == (forward :> <<1, 3, 1>>) @@ (encode :> <<2, 1, 1>>) @@ (device :> <<1>>)
MCRequests == (forward :> <<[size |-> 4, alignment |-> 1], [size |-> 2, alignment |-> 2]>>)
              @@ (encode :> <<[size |-> 2, alignment |-> 8]>>)
              @@ (device :> <<>>)
MCDeviceMethods == {device}
MCSharing == {sharing}
MCCallerSizes == <<2, 3, 0>>
=============================================================================
