------------------------------ MODULE MCNetTx ------------------------------
(***************************************************************************)
(* NetTx for TLC: frames of 136 bytes take one long packet, or up to three *)
(* short ones whose lengths are not multiples of four.  MuxPy's frames are *)
(* compared with the driver's at every sequence number the driver reaches. *)
(***************************************************************************)
EXTENDS NetTx, MuxPy

MCLens == {1, 2, 29}

\* Each packet takes one number at most, net_open none.
Sequences == 0 .. MaxPackets

FramesAgree ==
  [seq \in Sequences |->
     /\ \A len \in UpLens, more \in {0, 255} :
          LET py     == package((seq + more) % 256, len)
              driver == Pushed(DataFrame(seq + more + 1, <<len>>))
          IN Layout(py) = Layout(driver) /\ py.sequence = driver.sequence % 256
     /\ Layout(control) = Layout(Pushed(ControlFrame(seq)))]

(* At any time, what mux.py would send for a packet that fits has the      *)
(* layout of what the driver sends for a queue with it alone, and the two  *)
(* frames that open the channel have one layout: tags, offsets, lengths,   *)
(* alignment, bounds.  A mux.py that has sent as many packets as the       *)
(* driver has frames gives the next one the driver's number modulo 256,    *)
(* also when its own number goes round.  The number of the frame that      *)
(* opens the channel is not compared: 0 in mux.py, xn->sequence in the     *)
(* driver, which differ when the interface is opened again.                *)
SameUplink == FramesAgree[sequence]

ReadersAgreeOn ==
  [seq \in Sequences |->
     \A packets \in DownLists, trailer \in BOOLEAN :
       LET f == DownFrame(seq, packets, trailer)
       IN f.n_bytes <= MaxSize => ReadersAgree(f, packets, trailer)]

(* Of the frames the modem may send at any time, the driver hands up the   *)
(* packets in order, without the empty ones, all of them if they are IP,   *)
(* also when a tag follows ADTH.  mux.py writes the same packets, whole,   *)
(* when the frame fits its read and ends with ADTH; of a longer frame it   *)
(* writes at most a beginning, no packet cut short.                        *)
SameDownlink == ReadersAgreeOn[sequence]

=============================================================================
