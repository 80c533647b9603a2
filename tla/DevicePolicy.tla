---------------------------- MODULE DevicePolicy ----------------------------
(***************************************************************************)
(* The choice of the compute device (app/media/device_manager.py) and its  *)
(* use by the embedding engine and the OCR router.  "available" is the set *)
(* of accelerators that torch reports, empty without torch.                *)
(***************************************************************************)
EXTENDS Integers

Accelerators == {"cuda", "mps"}
Devices == Accelerators \cup {"cpu"}

\* CUDA before MPS before CPU.
ResolveComputeDevice(available) ==
    IF "cuda" \in available THEN "cuda"
    ELSE IF "mps" \in available THEN "mps"
    ELSE "cpu"

\* The automatic choice: unified memory only on a host that can afford it.
AutoDevice(device, host_memory, threshold) ==
    IF device = "mps" /\ host_memory < threshold THEN "cpu" ELSE device

\* A request is compared with the resolved device, not with all that exist;
\* one the code does not know counts as "auto".
SelectInferenceDevice(requested, device, host_memory, threshold) ==
    IF requested \in Accelerators THEN IF requested = device THEN device ELSE "cpu"
    ELSE IF requested = "cpu" THEN "cpu"
    ELSE AutoDevice(device, host_memory, threshold)

\* EasyOCR has no backend for MPS.
OcrGpuEnabled(device) == device = "cuda"

\* The device whose cache release_memory empties, "cpu" for none.
ReleasedDevice(device) == device
=============================================================================
