-------------------------------- MODULE MCUps --------------------------------
\* Small instances of Ups: two application threads, one stored entry.
EXTENDS Ups
==============================================================================
