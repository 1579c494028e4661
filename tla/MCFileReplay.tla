---------------------------- MODULE MCFileReplay ---------------------------
(* Recordings of a few payloads in small chunks.                            *)
EXTENDS FileReplay
=============================================================================
