--------------------------- MODULE MCDeviceMemory ---------------------------
(* DeviceMemory on a system with a CPU and two GPUs. *)
EXTENDS DeviceMemory, TLC

ThePlatform == <<"CPU", "GPU", "GPU">>
=============================================================================
