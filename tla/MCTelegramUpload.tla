--------------------------- MODULE MCTelegramUpload ---------------------------
(***************************************************************************)
(* Instances of TelegramUpload for TLC: documents of 2 bytes (4 with a     *)
(* premium account) in chunks of 2.  Two of the sources end early.         *)
(***************************************************************************)
EXTENDS TelegramUpload

Of(mode, size, premium, has, faults) ==
    [mode |-> mode, size |-> size, premium |-> premium, has |-> has, faults |-> faults]
Some ==
    {Of("stream", 5, TRUE, 5, FaultKinds), Of("stream", 3, FALSE, 3, FaultKinds),
     Of("stream", 3, FALSE, 1, FaultKinds), Of("stream", 1, FALSE, 1, FaultKinds),
     Of("seek", 5, FALSE, 5, {"send", "cancel"}), Of("seek", 3, FALSE, 3, FaultKinds),
     Of("seek", 3, FALSE, 2, {"save", "send"}), Of("replace", 5, FALSE, 5, FaultKinds)}
==============================================================================
