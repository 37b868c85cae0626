----------------------------- MODULE MCFileUpload -----------------------------
(***************************************************************************)
(* Instances of FileUpload for TLC.                                        *)
(***************************************************************************)
EXTENDS FileUpload

UploadOnly == {"upload"}
AllModes == {"upload", "keep", "dry"}
=============================================================================
