---------------------------- MODULE MCParkingLot ----------------------------
(* TLC instance of ParkingLot.  With the smallest growth factor and a load    *)
(* factor of 2 the second thread that parks replaces a table of two slots, in *)
(* which both addresses share a bucket, by one of four, in which they do not. *)
EXTENDS ParkingLot, TLC

CONSTANTS t1, t2, t3, addr1, addr2

MCHash == addr1 :> 0 @@ addr2 :> 2
Park(addresses, timed) == [op : {"park"}, address : addresses, timed : {timed}]
One == [op : {"unparkOne"}, address : {addr1}, count : {1}, token : {t3}]
Count(n) == [op : {"unparkCount"}, address : {addr1}, count : n]

MCPrograms == {
  \* Threads park on the two addresses; a third one unparks or looks at the table.
  t1 :> <<Park({addr1}, TRUE)>> @@ t2 :> <<Park({addr2}, FALSE)>> @@ t3 :> <<One \cup {ForEach}>>,
  \* Two threads park on one address, and one or both of them are unparked.
  t1 :> <<Park({addr1}, TRUE)>> @@ t2 :> <<Park({addr1}, FALSE)>> @@ t3 :> <<Count({1, 2})>>,
  \* A thread parks again when its time has run out or others have unparked it.
  t1 :> <<Park({addr1}, TRUE), Park({addr1}, FALSE)>> @@ t2 :> <<One>> @@ t3 :> <<One, Count({2})>> }
=============================================================================
