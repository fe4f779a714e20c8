-------------------------- MODULE MCCaptureReader --------------------------
(***************************************************************************)
(* Short files of both formats, cut after every byte.  The lengths are the *)
(* real ones of blocks with a few bytes of data; the limits are scaled.    *)
(***************************************************************************)
EXTENDS CaptureReader

B(kind, total, linktype, snaplen, iface, caplen) ==
    [kind |-> kind, total |-> total, bom |-> TRUE, linktype |-> linktype,
     snaplen |-> snaplen, iface |-> iface, caplen |-> caplen]

\* Sections, interfaces of two link types (one of them too short to count),
\* packets whose length fits and does not, an interface no one declares, and
\* lengths out of bounds.
MCBlocks ==
    {B("SHB", 28, 0, 0, 0, 0),
     [B("SHB", 28, 0, 0, 0, 0) EXCEPT !.bom = FALSE],
     B("IDB", 20, 1, 2, 0, 0),
     B("IDB", 20, 2, 0, 0, 0),
     B("IDB", 16, 2, 0, 0, 0),
     B("EPB", 36, 0, 0, 0, 4),
     B("PB", 36, 0, 0, 1, 6),
     B("SPB", 20, 0, 0, 0, 6),
     B("other", 8, 0, 0, 0, 0),
     B("other", 12, 0, 0, 0, 0)}

MCRecords ==
    {B("REC", 16, 0, 0, 0, 0), B("REC", 20, 0, 0, 0, 4), B("REC", 76, 0, 0, 0, 60)}
=============================================================================
