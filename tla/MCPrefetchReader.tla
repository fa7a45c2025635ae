-------------------------- MODULE MCPrefetchReader --------------------------
(* Ranges of an object of seven bytes read in windows of three: empty, one byte
   (whose window is halved), within one window, two aligned windows, two
   windows cut on the left and on the right, and three windows cut on the
   left and at the object's end. *)
EXTENDS PrefetchReader, TLC

MCRanges == {<<4, 4>>, <<4, 5>>, <<1, 3>>, <<0, 6>>, <<2, 5>>, <<2, 7>>}
=============================================================================
