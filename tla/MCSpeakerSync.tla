--------------------------- MODULE MCSpeakerSync ---------------------------
(* A small keyboard for TLC. *)
EXTENDS SpeakerSync

Scene(asked, frames, mounts, links, voice, boot) ==
  [asked |-> asked, frames |-> frames, mounts |-> mounts, links |-> links,
   voice |-> voice, boot |-> boot]

\* A whole transfer over USB, with repeated and missing fragments.
UsbTransfer == Scene({"Begin", "Data", "Commit"}, 5, 1, 0, 0, FALSE)
\* The cable is pulled in the middle, and plugged in again.
UsbReplug == Scene({"Begin", "Data", "Query"}, 3, 2, 0, 0, FALSE)
\* Wi-Fi: a resumed transfer, and a connection lost and made again.
WifiTransfer == Scene({"Resume", "Data", "Bad"}, 3, 0, 1, 0, FALSE)
WifiReconnect == Scene({"Current", "Resume", "Query"}, 2, 0, 2, 0, FALSE)
\* Both transports at once.
TwoTransports == Scene({"Resume", "Abort"}, 2, 1, 1, 0, FALSE)
\* Voice takes priority in the middle of a transfer.
VoicePriority == Scene({"Recover", "Capabilities", "Resume", "Data"}, 3, 1, 0, 1, FALSE)
\* Routes come and go while the boot sound is still being read.
DuringBoot == Scene({"Resume"}, 1, 2, 1, 0, TRUE)

MCScenes == {UsbTransfer, UsbReplug, WifiTransfer, WifiReconnect, TwoTransports,
             VoicePriority, DuringBoot}

\* One Wi-Fi connection, for what its cleanup leaves behind.
SlotScenes == {Scene({"Resume"}, 1, 0, 1, 0, FALSE)}
=============================================================================
