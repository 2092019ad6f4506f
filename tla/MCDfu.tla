------------------------------- MODULE MCDfu -------------------------------
(* A small part: two blocks of bootloader in two sectors, a sector of two  *)
(* blocks and a sector of one above it, and an image that fills both.      *)
EXTENDS Dfu

MCImage == <<"n1", "n2", "n3">>
MCSectorStarts == {0, 1, 2, 4}
MCUpdate == {<<"download", "reset">>, <<"upload", "download">>}
MCDownload == {<<"download">>}
=============================================================================
