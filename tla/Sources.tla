------------------------------ MODULE Sources ------------------------------
(***************************************************************************)
(* What reading a capture comes to.  The reader of src/pcapinator/pcap.py  *)
(* is modelled block by block in CaptureReader; here a capture is only one *)
(* of the kinds that make the calling code go different ways.              *)
(***************************************************************************)

\* A whole capture; one cut short by a killed capture process; one whose
\* lengths are implausible; a gzip stream cut short, one garbled, and one with
\* a false checksum; a disk that fails; a path open() refuses.
Sources == {"whole", "cut", "malformed", "gzip cut", "gzip garbled", "gzip checksum",
            "disk", "unreadable"}

\* How read_packets ends: it is exhausted, or the exception it raises.  A gzip
\* stream read to a cut raises EOFError and a garbled one zlib.error, which are
\* neither CaptureError nor OSError; BadGzipFile is an OSError.
Ending(source, strict) ==
    CASE source = "whole"      -> "exhausted"
      [] source = "cut"        -> IF strict THEN "CaptureError" ELSE "exhausted"
      [] source = "malformed"  -> "CaptureError"
      [] source = "gzip cut"   -> "EOFError"
      [] source = "gzip garbled" -> "zlib.error"
      [] source \in {"gzip checksum", "disk", "unreadable"} -> "OSError"

Exceptions == {"CaptureError", "EOFError", "zlib.error", "OSError"}

\* The except clauses of main and of _menu_action.
Handled(exception) == exception \in {"CaptureError", "OSError"}
=============================================================================
