----------------------------- MODULE MCDownloads ------------------------------
(* Downloads for TLC.  The values are in the .cfg: days of four minutes with a *)
(* session of two, windows of a day, and a range of three of them that starts  *)
(* at midnight or within the first day.                                        *)
EXTENDS Downloads
=============================================================================
