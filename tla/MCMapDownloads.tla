--------------------------- MODULE MCMapDownloads ---------------------------
(* Two sets and one local file.  The easy map belongs to set one according  *)
(* to the server, but its archive no longer has it; the file still does.    *)
EXTENDS MapDownloads

CONSTANTS one, two, file, easy, hard, other, nodir

MCHome == easy :> one @@ hard :> one @@ other :> two
MCArchive == one :> {hard} @@ two :> {other} @@ file :> {easy, hard}
MCFileSet == file :> one
MCLeftovers == one :> {nodir, {easy}} @@ two :> {nodir}
Clean == one :> {nodir} @@ two :> {nodir}
Whole == one :> {easy, hard} @@ two :> {other} @@ file :> {easy, hard}
=============================================================================
