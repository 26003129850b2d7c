---------------------------- MODULE MCRoomServices ----------------------------
EXTENDS RoomServices, TLC

CONSTANTS u1, u2, u3, u4, u5, b1

TwoInRoom == {u1, u2}
ThreeInRoom == {u1, u2, u3}
FiveInRoom == {u1, u2, u3, u4, u5}
Scribblers == {u1, b1}
=============================================================================
