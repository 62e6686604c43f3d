----------------------------- MODULE MCZipNames -----------------------------
(* One stem, two extensions, one UUID: enough for equal names, for names    *)
(* that become equal when the extension changes and for originals that     *)
(* already end in a counter; four assets a request.                        *)
EXTENDS ZipNames

CONSTANTS img, uuid, jpg, heic

MCStems == {img}
MCIds == {uuid}
MCExts == {jpg, heic}
=============================================================================
