---------------------------- MODULE MCS3Chunking ----------------------------
(* Instances of S3Chunking for TLC.                                        *)
EXTENDS S3Chunking

CONSTANTS e1, e2, e3, c1, c2, c3, c4, c5
=============================================================================
