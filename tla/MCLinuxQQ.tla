------------------------------ MODULE MCLinuxQQ ------------------------------
(***************************************************************************)
(* Instances of LinuxQQ for TLC: two clients and the users alice (1) and   *)
(* bob (128), who are friends.  In network order 1 is 16777216, which a    *)
(* client interrupted in the middle of a login sends, and 128 is negative, *)
(* so that a client interrupted there ends without a word.                 *)
(***************************************************************************)
EXTENDS LinuxQQ, TLC

CONSTANTS w1, w2, a1, a2, alice, bob, pw, empty

Ids == {1, 128}

Friends == {[userId |-> 1, friendId |-> 128, isBlocked |-> FALSE],
            [userId |-> 128, friendId |-> 1, isBlocked |-> FALSE]}
AliceBlockedBob == {[userId |-> 1, friendId |-> 128, isBlocked |-> TRUE],
                    [userId |-> 128, friendId |-> 1, isBlocked |-> FALSE]}
AliceAndBob ==
  {[id |-> 1, name |-> alice, pwd |-> pw], [id |-> 128, name |-> bob, pwd |-> pw]}
Answered1 == <<[userId |-> 1, friendId |-> 128, status |-> 1]>>
AskedAgain == Answered1 \o <<[userId |-> 128, friendId |-> 1, status |-> 0]>>
NoGroups == {}

LoginEntry(name, pwd) == [op |-> 2, name |-> name, pwd |-> pwd]

(* Both log in as alice, and one as bob before it or after; the other looks*)
(* at her friends and requests besides.                                    *)
Sessions ==
  (a1 :> {LoginEntry(alice, pw), [op |-> 6], [op |-> 10], [op |-> 11]})
  @@ (a2 :> {LoginEntry(alice, pw), LoginEntry(bob, pw)})

(* Alice and bob log in and write to each other.                           *)
Writing ==
  [c \in Addr |-> {LoginEntry(alice, pw), LoginEntry(bob, pw), [op |-> 15, friendId |-> 1],
                   [op |-> 15, friendId |-> 128]}]

(* What the clients may send.                                              *)
ClientRequests ==
  UNION {{Client!Built(c, u, t) : u \in UserId, t \in Typed[c]} : c \in Addr}
  \cup {Client!Own("LOGOUT_REQ", c, id) :
          c \in Addr, id \in {v \in UserId \cup {ntohl(u) : u \in UserId} : v >= 0}}
=============================================================================
