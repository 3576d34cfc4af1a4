---------------------------- MODULE SessionProofs ----------------------------
(***************************************************************************)
(* The acceptor's clients and the bridge's sessions agree, for any number  *)
(* of sessions and any interleaving of the two threads: SessionInv is      *)
(* inductive, and it implies the properties of WulfServer about the        *)
(* pending commands.                                                       *)
(*                                                                         *)
(* The first section says what an appended and a consumed command do to    *)
(* the consistency of one session; a step of the server is one of these    *)
(* for the session it is about, and harmless for every other.              *)
(***************************************************************************)
EXTENDS WulfServerProofs

(* Where the elements of a concatenation are. *)
LEMMA AppendIndex ==
    ASSUME NEW q \in Seq(Command), NEW c \in Seq(Command)
    PROVE  /\ q \o c \in Seq(Command)
           /\ DOMAIN (q \o c) = 1 .. Len(q) + Len(c)
           /\ DOMAIN q = 1 .. Len(q)
           /\ Len(q) \in Nat /\ Len(c) \in Nat
           /\ \A i \in DOMAIN q : i \in DOMAIN (q \o c) /\ (q \o c)[i] = q[i]
           /\ \A i \in DOMAIN (q \o c) :
                i \notin DOMAIN q => \E k \in DOMAIN c : (q \o c)[i] = c[k] /\ i = Len(q) + k
OBVIOUS

(* Commands of session s that change nothing about its consistency. *)
Harmless(c, s, st, n) ==
    \A k \in DOMAIN c : c[k].sid = s =>
        /\ c[k].kind \notin {"ClientConnected", "WantUpdates", "Disconnected"}
        /\ st # Absent /\ s < n

LEMMA AppendHarmless ==
    ASSUME NEW s \in Sid, NEW q \in Seq(Command), NEW c \in Seq(Command),
           NEW st, NEW J, NEW W, NEW n \in Nat,
           Consistent(s, q, st, J, W, n), Harmless(c, s, st, n)
    PROVE  Consistent(s, q \o c, st, J, W, n)
<1>. DEFINE p == q \o c
<1>0. s \in Nat
  BY DEF Sid
<1>1. /\ \A i \in DOMAIN q : i \in DOMAIN p /\ p[i] = q[i]
      /\ \A i \in DOMAIN p : i \notin DOMAIN q =>
           /\ \E k \in DOMAIN c : p[i] = c[k]
           /\ \A j \in DOMAIN q : j < i
      /\ \A i \in DOMAIN p : i \in Nat
  <2>1. DOMAIN q = 1 .. Len(q)
    OBVIOUS
  <2>. QED  BY <2>1, AppendIndex
<1>2. \A i \in DOMAIN p : i \notin DOMAIN q /\ p[i].sid = s =>
        /\ p[i].kind \notin {"ClientConnected", "WantUpdates", "Disconnected"}
        /\ st # Absent /\ s < n
  BY <1>1 DEF Harmless
<1>. HIDE DEF p
<1>3. NotYet(s, p, st, J, n)
  BY <1>0, <1>1, <1>2 DEF Consistent, NotYet, IsCmd
<1>4. AnnouncedOnce(s, p, J)
  BY <1>1, <1>2 DEF Consistent, AnnouncedOnce, IsCmd
<1>5. \A k : Has(q, k, s) => Has(p, k, s)
  BY <1>1 DEF Has
<1>6. Announced(s, p, st, J, W)
  BY <1>5 DEF Consistent, Announced
<1>7. Has(p, "ClientConnected", s) => Has(q, "ClientConnected", s)
  BY <1>1, <1>2 DEF Has
<1>8. EndAnnounced(s, p, st, J)
  <2>1. st = Absent /\ (s \in J \/ Has(p, "ClientConnected", s)) => Has(p, "Disconnected", s)
    BY <1>5, <1>7 DEF Consistent, EndAnnounced
  <2>2. ASSUME NEW i \in DOMAIN p, NEW j \in DOMAIN p,
               IsCmd(p[i], "Disconnected", s), p[j].sid = s
        PROVE  j <= i /\ st = Absent
    <3>1. i \in DOMAIN q
      BY <1>2, <2>2 DEF IsCmd
    <3>2. IsCmd(q[i], "Disconnected", s) /\ q[i].sid = s
      BY <1>1, <2>2, <3>1 DEF IsCmd
    <3>3. st = Absent
      BY <3>1, <3>2 DEF Consistent, EndAnnounced
    <3>4. j \in DOMAIN q /\ q[j].sid = s
      BY <1>1, <1>2, <2>2, <3>3
    <3>. QED  BY <3>1, <3>2, <3>3, <3>4 DEF Consistent, EndAnnounced
  <2>. QED  BY <2>1, <2>2 DEF EndAnnounced
<1>9. Consistent(s, p, st, J, W, n)
  BY <1>3, <1>4, <1>6, <1>8 DEF Consistent
<1>. QED  BY <1>9 DEF p

(* One command more: the old ones keep their places, the new one is last. *)
LEMMA AppendOneIndex ==
    ASSUME NEW q \in Seq(Command), NEW x \in Command
    PROVE  /\ \A i \in DOMAIN q :
                i \in DOMAIN (q \o <<x>>) /\ (q \o <<x>>)[i] = q[i] /\ i < Len(q) + 1
           /\ Len(q) + 1 \in DOMAIN (q \o <<x>>)
           /\ (q \o <<x>>)[Len(q) + 1] = x
           /\ \A i \in DOMAIN (q \o <<x>>) : i \notin DOMAIN q => i = Len(q) + 1
           /\ \A i \in DOMAIN (q \o <<x>>) : i \in Nat
           /\ Len(q) \in Nat
OBVIOUS

(* The login of s is announced as it completes. *)
LEMMA AppendConnected ==
    ASSUME NEW s \in Sid, NEW q \in Seq(Command), NEW x \in Command,
           NEW st \in PreLogin, NEW J, NEW W, NEW n \in Nat,
           Consistent(s, q, st, J, W, n), IsCmd(x, "ClientConnected", s)
    PROVE  Consistent(s, q \o <<x>>, "Verified", J, W, n)
<1>. DEFINE p == q \o <<x>>
            last == Len(q) + 1
<1>0. s \in Nat /\ st # Absent
  BY DEF Sid, PreLogin, Absent
<1>1. /\ \A i \in DOMAIN q : i \in DOMAIN p /\ p[i] = q[i] /\ i < last
      /\ last \in DOMAIN p /\ p[last] = x
      /\ \A i \in DOMAIN p : i \notin DOMAIN q => i = last
      /\ \A i \in DOMAIN p : i \in Nat
  BY AppendOneIndex
<1>. HIDE DEF p, last
<1>2. /\ s \notin J /\ s < n
      /\ \A i \in DOMAIN q : /\ ~IsCmd(q[i], "ClientConnected", s)
                            /\ ~IsCmd(q[i], "WantUpdates", s)
                            /\ ~IsCmd(q[i], "Disconnected", s)
  BY <1>0 DEF Consistent, NotYet, EndAnnounced, IsCmd
<1>3. Has(p, "ClientConnected", s)
  BY <1>1 DEF Has, IsCmd
<1>4. NotYet(s, p, "Verified", J, n)
  BY <1>0, <1>2 DEF NotYet, PreLogin
<1>5. AnnouncedOnce(s, p, J)
  BY <1>1, <1>2 DEF AnnouncedOnce, IsCmd
<1>6. Announced(s, p, "Verified", J, W)
  BY <1>3 DEF Announced
<1>7. EndAnnounced(s, p, "Verified", J)
  BY <1>1, <1>2 DEF EndAnnounced, IsCmd, Absent
<1>8. Consistent(s, p, "Verified", J, W, n)
  BY <1>4, <1>5, <1>6, <1>7 DEF Consistent
<1>. QED  BY <1>8 DEF p

(* A session that enters the game asks for updates. *)
LEMMA AppendWantUpdates ==
    ASSUME NEW s \in Sid, NEW q \in Seq(Command), NEW x \in Command,
           NEW J, NEW W, NEW n \in Nat,
           Consistent(s, q, "Verified", J, W, n), IsCmd(x, "WantUpdates", s)
    PROVE  Consistent(s, q \o <<x>>, "InGame", J, W, n)
<1>. DEFINE p == q \o <<x>>
            last == Len(q) + 1
<1>0. s \in Nat
  BY DEF Sid
<1>1. /\ \A i \in DOMAIN q : i \in DOMAIN p /\ p[i] = q[i] /\ i < last
      /\ last \in DOMAIN p /\ p[last] = x
      /\ \A i \in DOMAIN p : i \notin DOMAIN q => i = last
      /\ \A i \in DOMAIN p : i \in Nat
  BY AppendOneIndex
<1>. HIDE DEF p, last
<1>2. s < n /\ \A i \in DOMAIN q : ~IsCmd(q[i], "Disconnected", s)
  BY <1>0 DEF Consistent, NotYet, EndAnnounced, IsCmd, Absent
<1>3. Has(p, "WantUpdates", s) /\ \A k : Has(q, k, s) => Has(p, k, s)
  BY <1>1 DEF Has, IsCmd
<1>4. NotYet(s, p, "InGame", J, n)
  BY <1>0, <1>2 DEF NotYet, PreLogin
<1>5. AnnouncedOnce(s, p, J)
  <2>1. \A i \in DOMAIN p : IsCmd(p[i], "ClientConnected", s) => i \in DOMAIN q
    BY <1>1 DEF IsCmd
  <2>. QED  BY <1>1, <2>1 DEF Consistent, AnnouncedOnce
<1>6. Announced(s, p, "InGame", J, W)
  BY <1>3 DEF Consistent, Announced
<1>7. EndAnnounced(s, p, "InGame", J)
  BY <1>1, <1>2 DEF EndAnnounced, IsCmd, Absent
<1>8. Consistent(s, p, "InGame", J, W, n)
  BY <1>4, <1>5, <1>6, <1>7 DEF Consistent
<1>. QED  BY <1>8 DEF p

(* The reaper announces the end of a client. *)
LEMMA AppendDisconnected ==
    ASSUME NEW s \in Sid, NEW q \in Seq(Command), NEW x \in Command,
           NEW st, st # Absent, NEW J, NEW W, NEW n \in Nat,
           Consistent(s, q, st, J, W, n), IsCmd(x, "Disconnected", s)
    PROVE  Consistent(s, q \o <<x>>, Absent, J, W, n)
<1>. DEFINE p == q \o <<x>>
            last == Len(q) + 1
<1>0. s \in Nat
  BY DEF Sid
<1>1. /\ \A i \in DOMAIN q : i \in DOMAIN p /\ p[i] = q[i] /\ i < last
      /\ last \in DOMAIN p /\ p[last] = x
      /\ \A i \in DOMAIN p : i \notin DOMAIN q => i = last
      /\ \A i \in DOMAIN p : i \in Nat
  BY AppendOneIndex
<1>. HIDE DEF p, last
<1>2. s < n /\ \A i \in DOMAIN q : ~IsCmd(q[i], "Disconnected", s)
  BY <1>0 DEF Consistent, NotYet, EndAnnounced, IsCmd
<1>3. Has(p, "Disconnected", s)
  BY <1>1 DEF Has, IsCmd
<1>4. NotYet(s, p, Absent, J, n)
  BY <1>0, <1>2 DEF NotYet, PreLogin, Absent
<1>5. AnnouncedOnce(s, p, J)
  <2>1. \A i \in DOMAIN p : IsCmd(p[i], "ClientConnected", s) \/ IsCmd(p[i], "WantUpdates", s)
          => i \in DOMAIN q
    BY <1>1 DEF IsCmd
  <2>. QED  BY <1>1, <2>1 DEF Consistent, AnnouncedOnce
<1>6. Announced(s, p, Absent, J, W)
  BY DEF Announced, Absent
<1>7. EndAnnounced(s, p, Absent, J)
  <2>1. \A i \in DOMAIN p : IsCmd(p[i], "Disconnected", s) => i = last
    BY <1>1, <1>2 DEF IsCmd
  <2>2. \A j \in DOMAIN p : j <= last
    BY <1>1 DEF last
  <2>. QED  BY <1>3, <2>1, <2>2 DEF EndAnnounced
<1>8. Consistent(s, p, Absent, J, W, n)
  BY <1>4, <1>5, <1>6, <1>7 DEF Consistent
<1>. QED  BY <1>8 DEF p

(* Changes of state alone: a step of the handshake or of the login, ... *)
LEMMA StaysPreLogin ==
    ASSUME NEW s \in Sid, NEW q \in Seq(Command), NEW st \in PreLogin, NEW st2 \in PreLogin,
           NEW J, NEW W, NEW n \in Nat, Consistent(s, q, st, J, W, n)
    PROVE  Consistent(s, q, st2, J, W, n)
BY DEF Consistent, NotYet, AnnouncedOnce, Announced, EndAnnounced, PreLogin, Absent, Sid

(* ... a connection that closes, ... *)
LEMMA BecomesClosed ==
    ASSUME NEW s \in Sid, NEW q \in Seq(Command), NEW st, st # Absent,
           NEW J, NEW W, NEW n \in Nat, Consistent(s, q, st, J, W, n)
    PROVE  Consistent(s, q, "Closed", J, W, n)
BY DEF Consistent, NotYet, AnnouncedOnce, Announced, EndAnnounced, PreLogin, Absent, Sid

(* ... and the id given to a new connection. *)
LEMMA BecomesClient ==
    ASSUME NEW s \in Sid, NEW q \in Seq(Command), NEW J, NEW W,
           Consistent(s, q, Absent, J, W, s)
    PROVE  Consistent(s, q, "AwaitingKeyEcho", J, W, s + 1)
BY DEF Consistent, NotYet, AnnouncedOnce, Announced, EndAnnounced, PreLogin, Absent, Sid, IsCmd,
       Has

LEMMA NextIdGrows ==
    ASSUME NEW s \in Sid, NEW q \in Seq(Command), NEW st, NEW J, NEW W, NEW n \in Nat, s # n,
           Consistent(s, q, st, J, W, n)
    PROVE  Consistent(s, q, st, J, W, n + 1)
BY DEF Consistent, NotYet, Sid

----------------------------------------------------------------------------
(* The bridge consumes the oldest command: the others move up one place. *)
LEMMA TailIndex ==
    ASSUME NEW q \in Seq(Command), q # <<>>
    PROVE  /\ 1 \in DOMAIN q /\ q[1] = Head(q)
           /\ Tail(q) \in Seq(Command)
           /\ \A i \in DOMAIN Tail(q) : i \in Nat /\ i + 1 \in DOMAIN q /\ Tail(q)[i] = q[i + 1]
           /\ \A i \in DOMAIN q : i \in Nat /\ i >= 1
           /\ \A i \in DOMAIN q : i # 1 => i - 1 \in DOMAIN Tail(q) /\ Tail(q)[i - 1] = q[i]
OBVIOUS

(* What of the consistency of s survives when the head is consumed. *)
LEMMA TailConsistent ==
    ASSUME NEW s \in Sid, NEW q \in Seq(Command), q # <<>>,
           NEW st, NEW J, NEW W, NEW n \in Nat, Consistent(s, q, st, J, W, n)
    PROVE  /\ NotYet(s, Tail(q), st, J, n)
           /\ AnnouncedOnce(s, Tail(q), J)
           /\ \A i, j \in DOMAIN Tail(q) :
                IsCmd(Tail(q)[i], "Disconnected", s) /\ Tail(q)[j].sid = s
                  => j <= i /\ st = Absent
           /\ \A k : Has(q, k, s) => Has(Tail(q), k, s) \/ IsCmd(Head(q), k, s)
           /\ \A k : Has(Tail(q), k, s) => Has(q, k, s)
<1>. DEFINE p == Tail(q)
<1>1. /\ 1 \in DOMAIN q /\ q[1] = Head(q)
      /\ \A i \in DOMAIN p : i \in Nat /\ i + 1 \in DOMAIN q /\ p[i] = q[i + 1]
      /\ \A i \in DOMAIN q : i # 1 => i - 1 \in DOMAIN p /\ p[i - 1] = q[i]
  BY TailIndex
<1>. HIDE DEF p
<1>2. NotYet(s, p, st, J, n)
  BY <1>1 DEF Consistent, NotYet
<1>3. AnnouncedOnce(s, p, J)
  <2>. SUFFICES ASSUME NEW i \in DOMAIN p, IsCmd(p[i], "ClientConnected", s)
                PROVE  /\ s \notin J
                       /\ \A j \in DOMAIN p :
                            /\ IsCmd(p[j], "ClientConnected", s) => j = i
                            /\ IsCmd(p[j], "WantUpdates", s) => i < j
    BY DEF AnnouncedOnce
  <2>1. i + 1 \in DOMAIN q /\ IsCmd(q[i + 1], "ClientConnected", s)
    BY <1>1
  <2>2. s \notin J /\ \A j \in DOMAIN q :
                        /\ IsCmd(q[j], "ClientConnected", s) => j = i + 1
                        /\ IsCmd(q[j], "WantUpdates", s) => i + 1 < j
    BY <2>1 DEF Consistent, AnnouncedOnce
  <2>. QED  BY <1>1, <2>2
<1>4. ASSUME NEW i \in DOMAIN p, NEW j \in DOMAIN p,
             IsCmd(p[i], "Disconnected", s), p[j].sid = s
      PROVE  j <= i /\ st = Absent
  <2>1. /\ i + 1 \in DOMAIN q /\ IsCmd(q[i + 1], "Disconnected", s)
        /\ j + 1 \in DOMAIN q /\ q[j + 1].sid = s
    BY <1>1, <1>4
  <2>2. j + 1 <= i + 1 /\ st = Absent
    BY <2>1 DEF Consistent, EndAnnounced
  <2>. QED  BY <1>1, <2>2
<1>5. \A k : Has(q, k, s) => Has(p, k, s) \/ IsCmd(Head(q), k, s)
  BY <1>1 DEF Has, IsCmd
<1>6. \A k : Has(p, k, s) => Has(q, k, s)
  BY <1>1 DEF Has
<1>. QED  BY <1>2, <1>3, <1>4, <1>5, <1>6 DEF p

(* A command that leaves the bridge's tables alone, or is of another session. *)
LEMMA ConsumeHarmless ==
    ASSUME NEW s \in Sid, NEW q \in Seq(Command), q # <<>>,
           NEW st, NEW J, NEW W, NEW n \in Nat, Consistent(s, q, st, J, W, n),
           \A k \in {"ClientConnected", "WantUpdates", "Disconnected"} : ~IsCmd(Head(q), k, s)
    PROVE  Consistent(s, Tail(q), st, J, W, n)
<1>1. \A k \in {"ClientConnected", "WantUpdates", "Disconnected"} :
        Has(q, k, s) <=> Has(Tail(q), k, s)
  BY TailConsistent
<1>2. Announced(s, Tail(q), st, J, W)
  BY <1>1 DEF Consistent, Announced
<1>3. EndAnnounced(s, Tail(q), st, J)
  <2>1. st = Absent /\ (s \in J \/ Has(Tail(q), "ClientConnected", s))
          => Has(Tail(q), "Disconnected", s)
    BY <1>1 DEF Consistent, EndAnnounced
  <2>. QED  BY <2>1, TailConsistent DEF EndAnnounced
<1>. QED  BY <1>2, <1>3, TailConsistent DEF Consistent

(* AddSession of s. *)
LEMMA ConsumeConnected ==
    ASSUME NEW s \in Sid, NEW q \in Seq(Command), q # <<>>,
           NEW st, NEW J, NEW W, NEW n \in Nat, Consistent(s, q, st, J, W, n),
           IsCmd(Head(q), "ClientConnected", s)
    PROVE  Consistent(s, Tail(q), st, J \cup {s}, W, n)
<1>1. 1 \in DOMAIN q /\ q[1] = Head(q)
  BY TailIndex
<1>2. s \in Nat /\ s < n /\ st \notin PreLogin
  BY <1>1 DEF Consistent, NotYet, IsCmd, Sid
<1>3. ~Has(Tail(q), "ClientConnected", s)
  <2>1. \A j \in DOMAIN q : IsCmd(q[j], "ClientConnected", s) => j = 1
    BY <1>1 DEF Consistent, AnnouncedOnce
  <2>. QED  BY <2>1, TailIndex DEF Has, IsCmd
<1>4. NotYet(s, Tail(q), st, J \cup {s}, n)
  BY <1>2 DEF NotYet
<1>5. AnnouncedOnce(s, Tail(q), J \cup {s})
  BY <1>3 DEF AnnouncedOnce, Has, IsCmd
<1>6. \A k \in {"WantUpdates", "Disconnected"} : Has(q, k, s) => Has(Tail(q), k, s)
  BY TailConsistent DEF IsCmd
<1>7. Announced(s, Tail(q), st, J \cup {s}, W)
  BY <1>6 DEF Consistent, Announced
<1>8. EndAnnounced(s, Tail(q), st, J \cup {s})
  <2>1. Has(q, "ClientConnected", s)
    BY <1>1 DEF Has, IsCmd
  <2>2. st = Absent => Has(Tail(q), "Disconnected", s)
    BY <1>6, <2>1 DEF Consistent, EndAnnounced
  <2>. QED  BY <2>2, TailConsistent DEF EndAnnounced
<1>. QED  BY <1>4, <1>5, <1>7, <1>8 DEF Consistent

(* MarkWantUpdates of s: if the client is still in the game, AddSession came *)
(* first, because its command did.                                           *)
LEMMA ConsumeWantUpdates ==
    ASSUME NEW s \in Sid, NEW q \in Seq(Command), q # <<>>,
           NEW st, NEW J, NEW W, NEW n \in Nat, Consistent(s, q, st, J, W, n),
           IsCmd(Head(q), "WantUpdates", s)
    PROVE  Consistent(s, Tail(q), st, J, W \cup ({s} \cap J), n)
<1>1. 1 \in DOMAIN q /\ q[1] = Head(q) /\ \A i \in DOMAIN q : i \in Nat /\ i >= 1
  BY TailIndex
<1>2. ~Has(q, "ClientConnected", s)
  <2>. SUFFICES ASSUME NEW i \in DOMAIN q, IsCmd(q[i], "ClientConnected", s) PROVE FALSE
    BY DEF Has, IsCmd
  <2>1. i < 1
    BY <1>1 DEF Consistent, AnnouncedOnce
  <2>. QED  BY <1>1, <2>1
<1>3. Announced(s, Tail(q), st, J, W \cup ({s} \cap J))
  BY <1>2 DEF Consistent, Announced
<1>4. EndAnnounced(s, Tail(q), st, J)
  <2>1. Has(q, "Disconnected", s) => Has(Tail(q), "Disconnected", s)
    BY TailConsistent DEF IsCmd
  <2>2. ~Has(Tail(q), "ClientConnected", s)
    BY <1>2, TailConsistent
  <2>3. st = Absent /\ s \in J => Has(Tail(q), "Disconnected", s)
    BY <2>1 DEF Consistent, EndAnnounced
  <2>. QED  BY <2>2, <2>3, TailConsistent DEF EndAnnounced
<1>. QED  BY <1>3, <1>4, TailConsistent DEF Consistent

(* RemoveSession of s: no command of s is left to bring it back. *)
LEMMA ConsumeDisconnected ==
    ASSUME NEW s \in Sid, NEW q \in Seq(Command), q # <<>>,
           NEW st, NEW J, NEW W, NEW n \in Nat, Consistent(s, q, st, J, W, n),
           IsCmd(Head(q), "Disconnected", s)
    PROVE  Consistent(s, Tail(q), st, J \ {s}, W \ {s}, n)
<1>1. 1 \in DOMAIN q /\ q[1] = Head(q)
  BY TailIndex
<1>2. st = Absent /\ \A j \in DOMAIN q : q[j].sid = s => j <= 1
  BY <1>1 DEF Consistent, EndAnnounced, IsCmd
<1>3. \A i \in DOMAIN Tail(q) : Tail(q)[i].sid # s
  <2>. SUFFICES ASSUME NEW i \in DOMAIN Tail(q), Tail(q)[i].sid = s PROVE FALSE
    OBVIOUS
  <2>1. i \in Nat /\ i >= 1 /\ i + 1 \in DOMAIN q /\ q[i + 1].sid = s
    <3>1. i \in Nat /\ i >= 1
      BY TailIndex, LenProperties
    <3>. QED  BY <3>1, TailIndex
  <2>. QED  BY <1>2, <2>1
<1>4. NotYet(s, Tail(q), st, J \ {s}, n)
  BY <1>2, <1>3 DEF NotYet, PreLogin, Absent
<1>5. AnnouncedOnce(s, Tail(q), J \ {s})
  BY <1>3 DEF AnnouncedOnce, IsCmd
<1>6. Announced(s, Tail(q), st, J \ {s}, W \ {s})
  BY <1>2 DEF Announced, Absent
<1>7. EndAnnounced(s, Tail(q), st, J \ {s})
  BY <1>3 DEF EndAnnounced, IsCmd, Has
<1>. QED  BY <1>4, <1>5, <1>6, <1>7 DEF Consistent

(* Only the membership of s itself matters to s. *)
LEMMA OthersDoNotMatter ==
    ASSUME NEW s \in Sid, NEW q \in Seq(Command), NEW st, NEW n \in Nat,
           NEW J, NEW W, NEW J2, NEW W2, s \in J <=> s \in J2, s \in W <=> s \in W2,
           Consistent(s, q, st, J, W, n)
    PROVE  Consistent(s, q, st, J2, W2, n)
BY DEF Consistent, NotYet, AnnouncedOnce, Announced, EndAnnounced

----------------------------------------------------------------------------
(* A step of the I/O thread appends to the pending commands. *)
LEMMA PushPending ==
    ASSUME TypeOK, NEW c \in Seq(Command), inbound' = inbound \o c, UNCHANGED bridgeVars
    PROVE  Pending \in Seq(Command) /\ Pending' = Pending \o c
<1>1. batch \in Seq(Command) /\ inbound \in Seq(Command) /\ batch' = batch
  BY DEF TypeOK, QueuesTypeOK, BridgeTypeOK, bridgeVars
<1>2. batch \o (inbound \o c) = (batch \o inbound) \o c
  BY <1>1, ConcatAssociative
<1>. QED  BY <1>1, <1>2, ConcatProperties DEF Pending

(* A step of the connection of s leaves the other sessions consistent. *)
LEMMA OwnStep ==
    ASSUME TypeOK, SessionInv, NEW s \in Sid, NEW st,
           NEW c \in Seq(Command), \A k \in DOMAIN c : c[k].sid = s,
           inbound' = inbound \o c, state' = [state EXCEPT ![s] = st],
           nextSid' = nextSid, UNCHANGED bridgeVars,
           Consistent(s, Pending \o c, st, joined, wants, nextSid)
    PROVE  \A r \in Sid : Consistent(r, Pending, state[r], joined, wants, nextSid)'
<1>. SUFFICES ASSUME NEW r \in Sid
              PROVE  Consistent(r, Pending', state'[r], joined', wants', nextSid')
  OBVIOUS
<1>1. Pending \in Seq(Command) /\ Pending' = Pending \o c
  BY PushPending
<1>2. joined' = joined /\ wants' = wants /\ nextSid \in Nat
  BY DEF bridgeVars, TypeOK, AcceptorTypeOK
<1>3. CASE r = s
  <2>1. state'[r] = st
    BY <1>3 DEF TypeOK, AcceptorTypeOK, ConnectionTypeOK
  <2>. QED  BY <1>1, <1>2, <1>3, <2>1
<1>4. CASE r # s
  <2>1. state'[r] = state[r]
    BY <1>4 DEF TypeOK, AcceptorTypeOK, ConnectionTypeOK
  <2>2. Harmless(c, r, state[r], nextSid)
    BY <1>4 DEF Harmless
  <2>3. Consistent(r, Pending, state[r], joined, wants, nextSid)
    BY DEF SessionInv
  <2>4. Consistent(r, Pending \o c, state[r], joined, wants, nextSid)
    BY <1>1, <1>2, <2>2, <2>3, AppendHarmless
  <2>. QED  BY <1>1, <1>2, <2>1, <2>4
<1>. QED  BY <1>3, <1>4

LEMMA NothingPushed ==
    ASSUME TypeOK
    PROVE  /\ <<>> \in Seq(Command) /\ inbound = inbound \o <<>> /\ Pending = Pending \o <<>>
           /\ Pending \in Seq(Command)
<1>1. inbound \in Seq(Command) /\ batch \in Seq(Command)
  BY DEF TypeOK, QueuesTypeOK, BridgeTypeOK
<1>2. Pending \in Seq(Command)
  BY <1>1 DEF Pending
<1>. QED  BY <1>1, <1>2, ConcatEmptySeq

(* The commands of a completed login, the announcement apart. *)
LEMMA LoginTuples ==
    ASSUME NEW a \in Command, NEW b \in Command, NEW x \in Command
    PROVE  /\ <<a>> \in Seq(Command) /\ <<a, b>> \in Seq(Command)
           /\ <<a>> \o <<x>> = <<a, x>> /\ <<a, b>> \o <<x>> = <<a, b, x>>
           /\ \A k \in DOMAIN <<a>> : <<a>>[k] = a
           /\ \A k \in DOMAIN <<a, b>> : <<a, b>>[k] \in {a, b}
<1>1. <<a>> \in Seq(Command) /\ <<a, b>> \in Seq(Command)
  OBVIOUS
<1>2. <<a>> \o <<x>> = <<a, x>>
  <2>. DEFINE l == <<a>> \o <<x>>
              r == <<a, x>>
  <2>1. l \in Seq(Command) /\ r \in Seq(Command) /\ Len(l) = 2 /\ Len(r) = 2
    OBVIOUS
  <2>2. \A i \in 1 .. 2 : l[i] = r[i]
    OBVIOUS
  <2>. HIDE DEF l, r
  <2>3. l = r
    BY <2>1, <2>2, SeqEqual
  <2>. QED  BY <2>3 DEF l, r
<1>3. <<a, b>> \o <<x>> = <<a, b, x>>
  <2>. DEFINE l == <<a, b>> \o <<x>>
              r == <<a, b, x>>
  <2>1. l \in Seq(Command) /\ r \in Seq(Command) /\ Len(l) = 3 /\ Len(r) = 3
    OBVIOUS
  <2>2. \A i \in 1 .. 3 : l[i] = r[i]
    OBVIOUS
  <2>. HIDE DEF l, r
  <2>3. l = r
    BY <2>1, <2>2, SeqEqual
  <2>. QED  BY <2>3 DEF l, r
<1>4. \A k \in DOMAIN <<a>> : <<a>>[k] = a
  OBVIOUS
<1>5. \A k \in DOMAIN <<a, b>> : <<a, b>>[k] \in {a, b}
  OBVIOUS
<1>. QED  BY <1>1, <1>2, <1>3, <1>4, <1>5

(* Every step of a connection keeps all sessions consistent. *)
LEMMA ConnectionStepSession ==
    ASSUME TypeOK, SessionInv, NEW s \in Sid, nextSid' = nextSid, UNCHANGED bridgeVars,
           \/ HandleLoginUsername(s)
           \/ CompleteLoginWithPassword(s)
           \/ EnterGame(s)
           \/ \E t \in Requests : QueueReincarnate(s, t)
           \/ HandleUdpActionInput(s)
           \/ IgnoreFrame(s)
           \/ CloseConnection(s) /\ state[s] # Absent
           \/ \E e \in Endpoint : LinkUdpAndIdentify(s, e)
    PROVE  \A r \in Sid : Consistent(r, Pending, state[r], joined, wants, nextSid)'
<1>. DEFINE own(st, c) == Consistent(s, Pending \o c, st, joined, wants, nextSid)
<1>0. /\ Consistent(s, Pending, state[s], joined, wants, nextSid)
      /\ Pending \in Seq(Command)
      /\ nextSid \in Nat /\ s \in Nat
      /\ <<>> \in Seq(Command) /\ inbound = inbound \o <<>> /\ Pending = Pending \o <<>>
      /\ state = [state EXCEPT ![s] = state[s]]
  BY NothingPushed
     DEF SessionInv, TypeOK, AcceptorTypeOK, ConnectionTypeOK, Sid
<1>a. state[s] # Absent => s < nextSid
  BY <1>0 DEF Consistent, NotYet
<1>b. \A k \in CommandKind : /\ Cmd(k, s) \in Command /\ Cmd(k, s).sid = s
                             /\ Cmd(k, s).kind = k
  BY CmdType DEF Cmd
<1>1. CASE HandleLoginUsername(s)
  <2>. DEFINE c == <<Cmd("LoginUser", s)>>
  <2>1. c \in Seq(Command) /\ \A k \in DOMAIN c : c[k].sid = s /\ c[k].kind = "LoginUser"
    BY <1>b DEF CommandKind
  <2>2. /\ state[s] = "AwaitingUsername" /\ inbound' = inbound \o c
        /\ state' = [state EXCEPT ![s] = "AwaitingPassword"]
    BY <1>1 DEF HandleLoginUsername, Push
  <2>. HIDE DEF c
  <2>3. Harmless(c, s, state[s], nextSid)
    BY <1>a, <2>1, <2>2 DEF Harmless, Absent
  <2>4. Consistent(s, Pending \o c, "AwaitingUsername", joined, wants, nextSid)
    BY <1>0, <2>1, <2>2, <2>3, AppendHarmless
  <2>5. own("AwaitingPassword", c)
    BY <1>0, <2>1, <2>4, AppendIndex, StaysPreLogin DEF PreLogin
  <2>. QED  BY <2>1, <2>2, <2>5, OwnStep
<1>2. CASE CompleteLoginWithPassword(s)
  <2>. DEFINE last == Cmd("ClientConnected", s)
  <2>1. PICK pre \in Seq(Command) :
          /\ \A k \in DOMAIN pre : /\ pre[k].sid = s
                                   /\ pre[k].kind \in {"LoginUser", "LoginPassword"}
          /\ state[s] \in {"AwaitingUsername", "AwaitingPassword"}
          /\ inbound' = inbound \o (pre \o <<last>>)
    <3>. DEFINE user == Cmd("LoginUser", s)
                pass == Cmd("LoginPassword", s)
    <3>0. /\ user \in Command /\ user.sid = s /\ user.kind = "LoginUser"
          /\ pass \in Command /\ pass.sid = s /\ pass.kind = "LoginPassword"
          /\ last \in Command
      BY <1>b DEF CommandKind
    <3>1. CASE state[s] = "AwaitingPassword" /\ inbound' = inbound \o <<pass, last>>
      <4>. HIDE DEF user, pass, last
      <4>1. <<pass>> \in Seq(Command) /\ <<pass>> \o <<last>> = <<pass, last>>
        BY <3>0, LoginTuples
      <4>2. \A k \in DOMAIN <<pass>> : <<pass>>[k] = pass
        BY <3>0, LoginTuples
      <4>. QED  BY <3>0, <3>1, <4>1, <4>2
    <3>2. CASE state[s] = "AwaitingUsername" /\ inbound' = inbound \o <<user, pass, last>>
      <4>. HIDE DEF user, pass, last
      <4>1. <<user, pass>> \in Seq(Command) /\ <<user, pass>> \o <<last>> = <<user, pass, last>>
        BY <3>0, LoginTuples
      <4>2. \A k \in DOMAIN <<user, pass>> : <<user, pass>>[k] \in {user, pass}
        BY <3>0, LoginTuples
      <4>. QED  BY <3>0, <3>2, <4>1, <4>2
    <3>. QED  BY <1>2, <3>1, <3>2 DEF CompleteLoginWithPassword, Push
  <2>2. last \in Command /\ IsCmd(last, "ClientConnected", s) /\ last.sid = s
    BY <1>b DEF IsCmd, CommandKind
  <2>3. state' = [state EXCEPT ![s] = "Verified"]
    BY <1>2 DEF CompleteLoginWithPassword
  <2>. HIDE DEF last
  <2>4. Harmless(pre, s, state[s], nextSid)
    BY <1>a, <2>1 DEF Harmless, Absent
  <2>5. Consistent(s, Pending \o pre, state[s], joined, wants, nextSid)
    BY <1>0, <2>4, AppendHarmless
  <2>6. Pending \o pre \in Seq(Command) /\ state[s] \in PreLogin
    BY <1>0, <2>1 DEF PreLogin
  <2>7. Consistent(s, (Pending \o pre) \o <<last>>, "Verified", joined, wants, nextSid)
    BY <1>0, <2>2, <2>5, <2>6, AppendConnected
  <2>8. /\ pre \o <<last>> \in Seq(Command)
        /\ \A k \in DOMAIN (pre \o <<last>>) : (pre \o <<last>>)[k].sid = s
    BY <2>1, <2>2
  <2>9. (Pending \o pre) \o <<last>> = Pending \o (pre \o <<last>>)
    <3>1. <<last>> \in Seq(Command)
      BY <2>2
    <3>. QED  BY <1>0, <3>1, ConcatAssociative
  <2>10. own("Verified", pre \o <<last>>)
    BY <2>7, <2>9
  <2>. QED  BY <2>1, <2>3, <2>8, <2>10, OwnStep
<1>3. CASE EnterGame(s)
  <2>. DEFINE x == Cmd("WantUpdates", s)
  <2>1. x \in Command /\ IsCmd(x, "WantUpdates", s)
    BY <1>b DEF IsCmd, CommandKind
  <2>2. /\ state[s] = "Verified" /\ inbound' = inbound \o <<x>>
        /\ state' = [state EXCEPT ![s] = "InGame"]
    BY <1>3 DEF EnterGame, Push
  <2>. HIDE DEF x
  <2>3. <<x>> \in Seq(Command) /\ \A k \in DOMAIN <<x>> : <<x>>[k].sid = s
    BY <2>1 DEF IsCmd
  <2>4. own("InGame", <<x>>)
    BY <1>0, <2>1, <2>2, AppendWantUpdates
  <2>. QED  BY <2>2, <2>3, <2>4, OwnStep
<1>4. ASSUME NEW c \in Seq(Command), state[s] = "InGame", inbound' = inbound \o c, state' = state,
             \A k \in DOMAIN c : c[k].sid = s /\ c[k].kind \in {"Reincarnate", "ActionInput"}
      PROVE  \A r \in Sid : Consistent(r, Pending, state[r], joined, wants, nextSid)'
  <2>1. Harmless(c, s, state[s], nextSid)
    BY <1>a, <1>4 DEF Harmless, Absent
  <2>2. own(state[s], c)
    BY <1>0, <2>1, AppendHarmless
  <2>. QED  BY <1>0, <1>4, <2>2, OwnStep
<1>5. ASSUME NEW t \in Requests, QueueReincarnate(s, t)
      PROVE  \A r \in Sid : Consistent(r, Pending, state[r], joined, wants, nextSid)'
  <2>. DEFINE c == <<[Cmd("Reincarnate", s) EXCEPT !.team = t]>>
  <2>1. c \in Seq(Command) /\ \A k \in DOMAIN c : c[k].sid = s /\ c[k].kind = "Reincarnate"
    BY AcceptorAssumption DEF Cmd, Command, CommandKind
  <2>2. state[s] = "InGame" /\ inbound' = inbound \o c /\ state' = state
    BY <1>5 DEF QueueReincarnate, Push, connVars
  <2>. HIDE DEF c
  <2>. QED  BY <1>4, <2>1, <2>2
<1>6. CASE HandleUdpActionInput(s)
  <2>. DEFINE c == <<Cmd("ActionInput", s)>>
  <2>1. c \in Seq(Command) /\ \A k \in DOMAIN c : c[k].sid = s /\ c[k].kind = "ActionInput"
    BY <1>b DEF CommandKind
  <2>2. state[s] = "InGame" /\ inbound' = inbound \o c /\ state' = state
    BY <1>6 DEF HandleUdpActionInput, Push, connVars
  <2>. HIDE DEF c
  <2>. QED  BY <1>4, <2>1, <2>2
<1>7. ASSUME NEW st, state' = [state EXCEPT ![s] = st], inbound' = inbound,
             Consistent(s, Pending, st, joined, wants, nextSid)
      PROVE  \A r \in Sid : Consistent(r, Pending, state[r], joined, wants, nextSid)'
  <2>1. own(st, <<>>) /\ inbound' = inbound \o <<>> /\ \A k \in DOMAIN <<>> : <<>>[k].sid = s
    BY <1>0, <1>7
  <2>. QED  BY <1>0, <1>7, <2>1, OwnStep
<1>8. CASE IgnoreFrame(s)
  BY <1>0, <1>7, <1>8 DEF IgnoreFrame, connVars, queueVars
<1>9. CASE CloseConnection(s) /\ state[s] # Absent
  <2>1. Consistent(s, Pending, "Closed", joined, wants, nextSid)
    BY <1>0, <1>9, BecomesClosed
  <2>. QED  BY <1>7, <1>9, <2>1 DEF CloseConnection, queueVars
<1>10. ASSUME NEW e \in Endpoint, LinkUdpAndIdentify(s, e)
       PROVE  \A r \in Sid : Consistent(r, Pending, state[r], joined, wants, nextSid)'
  <2>1. Consistent(s, Pending, "AwaitingUsername", joined, wants, nextSid)
    BY <1>0, <1>10, StaysPreLogin DEF LinkUdpAndIdentify, PreLogin
  <2>. QED  BY <1>7, <1>10, <2>1 DEF LinkUdpAndIdentify, queueVars
<1>. QED  BY <1>1, <1>2, <1>3, <1>5, <1>6, <1>8, <1>9, <1>10

(* A step that pushes nothing and opens or closes no session. *)
LEMMA QuietStep ==
    ASSUME SessionInv, UNCHANGED <<inbound, state, nextSid, batch, joined, wants>>
    PROVE  \A r \in Sid : Consistent(r, Pending, state[r], joined, wants, nextSid)'
BY DEF SessionInv, Pending

(* Every step of the I/O thread keeps all sessions consistent. *)
LEMMA IoStepSession ==
    ASSUME TypeOK, SessionInv, IoStep, UNCHANGED bridgeVars
    PROVE  \A r \in Sid : Consistent(r, Pending, state[r], joined, wants, nextSid)'
<1>. DEFINE Goal == \A r \in Sid : Consistent(r, Pending, state[r], joined, wants, nextSid)'
<1>0. /\ ready \subseteq Clients /\ dead \subseteq Clients
      /\ nextSid \in Nat
  BY DEF SessionInv, PassInv, TypeOK, AcceptorTypeOK
<1>1. CASE Select \/ NoDatagram \/ FlushOutboundMessages
  BY <1>1, QuietStep
     DEF Select, NoDatagram, FlushOutboundMessages, connVars, queueVars, bridgeVars
<1>2. CASE AcceptNewConnection
  <2>1. nextSid \in Sid
    BY <1>2, QueuesAssumption DEF AcceptNewConnection, Sid, TypeOK, AcceptorTypeOK
  <2>2. /\ Pending' = Pending /\ joined' = joined /\ wants' = wants
        /\ nextSid' = nextSid + 1
        /\ state' = [state EXCEPT ![nextSid] = "AwaitingKeyEcho"]
        /\ Pending \in Seq(Command)
    BY <1>2, NothingPushed DEF AcceptNewConnection, bridgeVars, queueVars, Pending
  <2>3. SUFFICES ASSUME NEW r \in Sid
                 PROVE  Consistent(r, Pending, state'[r], joined, wants, nextSid + 1)
    BY <2>2
  <2>4. Consistent(r, Pending, state[r], joined, wants, nextSid)
    BY DEF SessionInv
  <2>5. CASE r = nextSid
    <3>1. state'[r] = "AwaitingKeyEcho"
      BY <2>2, <2>5 DEF TypeOK, AcceptorTypeOK, ConnectionTypeOK
    <3>2. state[r] = Absent
      BY <1>0, <2>4, <2>5 DEF Consistent, NotYet
    <3>3. Consistent(r, Pending, "AwaitingKeyEcho", joined, wants, r + 1)
      BY <2>2, <2>4, <2>5, <3>2, BecomesClient
    <3>. QED  BY <2>5, <3>1, <3>3
  <2>6. CASE r # nextSid
    <3>1. state'[r] = state[r]
      BY <2>2, <2>6 DEF TypeOK, AcceptorTypeOK, ConnectionTypeOK
    <3>. QED  BY <1>0, <2>2, <2>4, <2>6, <3>1, NextIdGrows
  <2>. QED  BY <2>5, <2>6
<1>3. ASSUME NEW s \in Sid PROVE
        \/ RecvClosed(s) \/ RecvData(s) \/ EndDrain(s)
        \/ HandleFrame(s) \/ DropClient(s) \/ ReapClient(s)
        \/ \E e \in Endpoint : LinkUdp(s, e) \/ UdpActionInput(s, e)
        \/ \E e \in Endpoint, t \in Requests : UdpReincarnate(s, e, t)
        => Goal
  <2>1. CASE RecvClosed(s) \/ RecvData(s) \/ EndDrain(s)
    BY <2>1, QuietStep DEF RecvClosed, RecvData, EndDrain, connVars, queueVars, bridgeVars
  <2>2. CASE HandleFrame(s)
    BY <2>2, ConnectionStepSession DEF HandleFrame
  <2>3. CASE DropClient(s)
    <3>1. state[s] # Absent
      BY <1>0, <2>3 DEF DropClient, Current, IsFirst, Clients
    <3>. QED  BY <2>3, <3>1, ConnectionStepSession DEF DropClient
  <2>4. CASE ReapClient(s)
    <3>. DEFINE x == Cmd("Disconnected", s)
    <3>1. x \in Command /\ IsCmd(x, "Disconnected", s) /\ x.sid = s
      BY CmdType DEF Cmd, IsCmd, CommandKind
    <3>2. /\ inbound' = inbound \o <<x>> /\ state' = [state EXCEPT ![s] = Absent]
          /\ nextSid' = nextSid
      BY <2>4 DEF ReapClient, Push
    <3>. HIDE DEF x
    <3>3. <<x>> \in Seq(Command) /\ \A k \in DOMAIN <<x>> : <<x>>[k].sid = s
      BY <3>1
    <3>4. /\ state[s] # Absent /\ Pending \in Seq(Command)
          /\ Consistent(s, Pending, state[s], joined, wants, nextSid)
      BY <1>0, <2>4, NothingPushed DEF ReapClient, Clients, SessionInv
    <3>5. Consistent(s, Pending \o <<x>>, Absent, joined, wants, nextSid)
      BY <1>0, <3>1, <3>4, AppendDisconnected
    <3>. QED  BY <3>2, <3>3, <3>5, OwnStep
  <2>5. ASSUME NEW e \in Endpoint, LinkUdp(s, e) PROVE Goal
    BY <2>5, ConnectionStepSession DEF LinkUdp
  <2>6. ASSUME NEW e \in Endpoint, UdpActionInput(s, e) PROVE Goal
    BY <2>6, ConnectionStepSession DEF UdpActionInput
  <2>7. ASSUME NEW e \in Endpoint, NEW t \in Requests, UdpReincarnate(s, e, t) PROVE Goal
    BY <2>7, ConnectionStepSession DEF UdpReincarnate
  <2>. QED  BY <2>1, <2>2, <2>3, <2>4, <2>5, <2>6, <2>7
<1>. QED  BY <1>1, <1>2, <1>3 DEF IoStep

(* A client that is read or reaped is connected, and stays so until it is. *)
LEMMA IoStepPass ==
    ASSUME TypeOK, PassInv, IoStep, UNCHANGED bridgeVars
    PROVE  PassInv'
<1>0. ~ticking' => batch' = <<>>
  BY DEF PassInv, bridgeVars
<1>1. ASSUME ready' \subseteq ready, dead' \subseteq dead \cup ready, pc' # "reap",
             \A s \in Sid : state[s] # Absent => state'[s] # Absent
      PROVE  PassInv'
  BY <1>0, <1>1 DEF PassInv, Clients
<1>2. CASE Select
  BY <1>0, <1>2 DEF PassInv, Select, Clients, Polled, connVars
<1>3. CASE FlushOutboundMessages
  BY <1>0, <1>3 DEF PassInv, FlushOutboundMessages, Clients, connVars
<1>4. CASE NoDatagram
  BY <1>1, <1>4 DEF NoDatagram, PumpUdp, connVars
<1>5. CASE AcceptNewConnection
  BY <1>1, <1>5 DEF AcceptNewConnection, TypeOK, AcceptorTypeOK, ConnectionTypeOK, Absent
<1>6. ASSUME NEW s \in Sid PROVE
        \/ RecvClosed(s) \/ RecvData(s) \/ EndDrain(s)
        \/ HandleFrame(s) \/ DropClient(s) \/ ReapClient(s)
        \/ \E e \in Endpoint : LinkUdp(s, e) \/ UdpActionInput(s, e)
        \/ \E e \in Endpoint, t \in Requests : UdpReincarnate(s, e, t)
        => PassInv'
  <2>0. ASSUME NEW st \in ConnState, state' = [state EXCEPT ![s] = st]
        PROVE  \A r \in Sid : state[r] # Absent => state'[r] # Absent
    BY <2>0 DEF TypeOK, AcceptorTypeOK, ConnectionTypeOK, ConnState, Absent
  <2>1. CASE RecvClosed(s) \/ RecvData(s) \/ EndDrain(s)
    BY <1>1, <2>1 DEF RecvClosed, RecvData, EndDrain, Current, IsFirst, connVars
  <2>2. CASE HandleFrame(s)
    <3>1. \A r \in Sid : state[r] # Absent => state'[r] # Absent
      BY <2>0, <2>2 DEF HandleFrame, HandleLoginUsername, EnterGame, QueueReincarnate,
           IgnoreFrame, CompleteLoginWithPassword, connVars, ConnState
    <3>. QED  BY <1>1, <2>2, <3>1 DEF HandleFrame
  <2>3. CASE DropClient(s)
    <3>1. \A r \in Sid : state[r] # Absent => state'[r] # Absent
      BY <2>0, <2>3 DEF DropClient, CloseConnection, ConnState
    <3>. QED  BY <1>1, <2>3, <3>1 DEF DropClient, Current, IsFirst
  <2>4. CASE ReapClient(s)
    <3>1. \A r \in Sid : r # s => state'[r] = state[r]
      BY <2>4 DEF ReapClient, TypeOK, AcceptorTypeOK, ConnectionTypeOK
    <3>2. ready' = {} /\ dead' = dead \ {s} /\ pc' = "reap"
      BY <2>4 DEF PassInv, ReapClient
    <3>. QED  BY <1>0, <3>1, <3>2 DEF PassInv, Clients
  <2>5. ASSUME NEW e \in Endpoint, LinkUdp(s, e) PROVE PassInv'
    <3>1. \A r \in Sid : state[r] # Absent => state'[r] # Absent
      BY <2>0, <2>5 DEF LinkUdp, LinkUdpAndIdentify, ConnState
    <3>. QED  BY <1>1, <2>5, <3>1 DEF LinkUdp, PumpUdp
  <2>6. ASSUME NEW e \in Endpoint, UdpActionInput(s, e) PROVE PassInv'
    BY <1>1, <2>6 DEF UdpActionInput, PumpUdp, HandleUdpActionInput, connVars
  <2>7. ASSUME NEW e \in Endpoint, NEW t \in Requests, UdpReincarnate(s, e, t) PROVE PassInv'
    BY <1>1, <2>7 DEF UdpReincarnate, PumpUdp, QueueReincarnate, connVars
  <2>. QED  BY <2>1, <2>2, <2>3, <2>4, <2>5, <2>6, <2>7
<1>. QED  BY <1>2, <1>3, <1>4, <1>5, <1>6 DEF IoStep

----------------------------------------------------------------------------
(* HandleCommand consumes the oldest pending command. *)
LEMMA TakePending ==
    ASSUME TypeOK, NEW kinds, Take(kinds)
    PROVE  /\ Pending \in Seq(Command) /\ Pending # <<>>
           /\ Pending' = Tail(Pending)
           /\ Head(Pending) = Head(batch)
           /\ Head(batch).kind \in kinds
           /\ Head(batch).sid \in Sid
<1>1. /\ batch \in Seq(Command) /\ inbound \in Seq(Command) /\ batch # <<>>
      /\ batch' = Tail(batch) /\ inbound' = inbound /\ Head(batch).kind \in kinds
  BY DEF Take, TypeOK, BridgeTypeOK, QueuesTypeOK
<1>2. Head(batch) \in Command
  BY <1>1
<1>3. /\ Pending \in Seq(Command) /\ Pending # <<>>
      /\ Head(Pending) = Head(batch)
      /\ Tail(Pending) \in Seq(Command) /\ Tail(batch) \o inbound \in Seq(Command)
  BY <1>1 DEF Pending
<1>4. Tail(batch) \o inbound = Tail(Pending)
  <2>1. Len(Tail(batch) \o inbound) = Len(Tail(Pending))
    BY <1>1, <1>3 DEF Pending
  <2>2. \A i \in 1 .. Len(Tail(batch) \o inbound) : (Tail(batch) \o inbound)[i] = Tail(Pending)[i]
    BY <1>1, <1>3 DEF Pending
  <2>. QED  BY <1>3, <2>1, <2>2, SeqEqual
<1>5. Pending' = Tail(batch) \o inbound
  BY <1>1 DEF Pending
<1>. QED  BY <1>1, <1>2, <1>3, <1>4, <1>5 DEF Command

(* A command about session s, for which it is consistent to have the bridge *)
(* hold J and W, changes nothing for the other sessions.                     *)
LEMMA ConsumeStep ==
    ASSUME TypeOK, SessionInv, NEW kinds, Take(kinds), UNCHANGED acceptorVars,
           \A r \in Sid \ {Head(batch).sid} :
             (r \in joined <=> r \in joined') /\ (r \in wants <=> r \in wants'),
           LET s == Head(batch).sid IN
             Consistent(s, Tail(Pending), state[s], joined', wants', nextSid)
    PROVE  \A r \in Sid : Consistent(r, Pending, state[r], joined, wants, nextSid)'
<1>. SUFFICES ASSUME NEW r \in Sid
              PROVE  Consistent(r, Tail(Pending), state[r], joined', wants', nextSid)
  BY TakePending DEF acceptorVars, connVars
<1>0. /\ Pending \in Seq(Command) /\ Pending # <<>> /\ Head(Pending) = Head(batch)
      /\ Tail(Pending) \in Seq(Command) /\ nextSid \in Nat
  <2>1. Pending \in Seq(Command) /\ Pending # <<>> /\ Head(Pending) = Head(batch)
    BY TakePending
  <2>. QED  BY <2>1 DEF TypeOK, AcceptorTypeOK
<1>1. CASE r = Head(batch).sid
  BY <1>1
<1>2. CASE r # Head(batch).sid
  <2>1. Consistent(r, Pending, state[r], joined, wants, nextSid)
    BY DEF SessionInv
  <2>2. Consistent(r, Tail(Pending), state[r], joined, wants, nextSid)
    BY <1>0, <1>2, <2>1, ConsumeHarmless DEF IsCmd
  <2>3. r \in joined <=> r \in joined'
    BY <1>2
  <2>4. r \in wants <=> r \in wants'
    BY <1>2
  <2>. QED  BY <1>0, <2>2, <2>3, <2>4, OthersDoNotMatter
<1>. QED  BY <1>1, <1>2

(* Every step of a tick keeps all sessions consistent. *)
LEMMA TickStepSession ==
    ASSUME TypeOK, SessionInv, TickStep, UNCHANGED acceptorVars
    PROVE  \A r \in Sid : Consistent(r, Pending, state[r], joined, wants, nextSid)'
<1>. DEFINE Goal == \A r \in Sid : Consistent(r, Pending, state[r], joined, wants, nextSid)'
            s == Head(batch).sid
<1>0. nextSid \in Nat
  BY DEF TypeOK, AcceptorTypeOK
<1>1. CASE BeginTick
  <2>1. batch = <<>> /\ batch' = inbound /\ inbound' = <<>> /\ inbound \in Seq(Command)
    BY <1>1 DEF BeginTick, SessionInv, PassInv, TypeOK, QueuesTypeOK
  <2>2. Pending' = Pending
    BY <2>1, ConcatEmptySeq DEF Pending
  <2>. QED  BY <1>1, <2>2 DEF BeginTick, SessionInv, acceptorVars, connVars
<1>2. CASE EmitSnapshots
  BY <1>2, QuietStep DEF EmitSnapshots, acceptorVars, connVars
<1>3. ASSUME NEW kinds, Take(kinds)
      PROVE  /\ s \in Sid /\ Pending \in Seq(Command) /\ Pending # <<>>
             /\ Head(Pending).sid = s /\ Head(Pending).kind \in kinds
             /\ Consistent(s, Pending, state[s], joined, wants, nextSid)
  BY <1>3, TakePending DEF SessionInv
<1>4. ASSUME NEW kinds, Take(kinds), UNCHANGED <<joined, wants>>,
             kinds \cap {"ClientConnected", "WantUpdates", "Disconnected"} = {}
      PROVE  Goal
  <2>1. \A k \in {"ClientConnected", "WantUpdates", "Disconnected"} : ~IsCmd(Head(Pending), k, s)
    BY <1>3, <1>4 DEF IsCmd
  <2>2. Consistent(s, Tail(Pending), state[s], joined, wants, nextSid)
    BY <1>0, <1>3, <1>4, <2>1, ConsumeHarmless
  <2>. QED  BY <1>4, <2>2, ConsumeStep
<1>5. CASE AddSession
  <2>1. Take({"ClientConnected"})
    BY <1>5 DEF AddSession
  <2>2. IsCmd(Head(Pending), "ClientConnected", s)
    BY <1>3, <2>1 DEF IsCmd
  <2>3. Consistent(s, Tail(Pending), state[s], joined \cup {s}, wants, nextSid)
    BY <1>0, <1>3, <2>1, <2>2, ConsumeConnected
  <2>4. wants' = wants /\ joined' = joined \cup {s}
    BY <1>5 DEF AddSession
  <2>. QED  BY <2>1, <2>3, <2>4, ConsumeStep
<1>6. CASE MarkWantUpdates
  <2>1. Take({"WantUpdates"}) /\ wants' = wants \cup ({s} \cap joined) /\ joined' = joined
    BY <1>6 DEF MarkWantUpdates
  <2>2. IsCmd(Head(Pending), "WantUpdates", s)
    BY <1>3, <2>1 DEF IsCmd
  <2>3. Consistent(s, Tail(Pending), state[s], joined, wants \cup ({s} \cap joined), nextSid)
    BY <1>0, <1>3, <2>1, <2>2, ConsumeWantUpdates
  <2>. QED  BY <2>1, <2>3, ConsumeStep
<1>7. CASE RemoveSession
  <2>1. Take({"Disconnected"}) /\ joined' = joined \ {s} /\ wants' = wants \ {s}
    BY <1>7 DEF RemoveSession
  <2>2. IsCmd(Head(Pending), "Disconnected", s)
    BY <1>3, <2>1 DEF IsCmd
  <2>3. Consistent(s, Tail(Pending), state[s], joined \ {s}, wants \ {s}, nextSid)
    BY <1>0, <1>3, <2>1, <2>2, ConsumeDisconnected
  <2>. QED  BY <2>1, <2>3, ConsumeStep
<1>8. CASE HandleTeamSwitch \/ HandleSpawn
  <2>1. Take({"Reincarnate"}) /\ UNCHANGED <<joined, wants>>
    BY <1>8 DEF HandleTeamSwitch, HandleSpawn
  <2>. QED  BY <1>4, <2>1
<1>9. CASE IgnoreCommand
  <2>1. Take({"LoginUser", "LoginPassword", "ActionInput"}) /\ UNCHANGED <<joined, wants>>
    BY <1>9 DEF IgnoreCommand
  <2>. QED  BY <1>4, <2>1
<1>. QED  BY <1>1, <1>2, <1>5, <1>6, <1>7, <1>8, <1>9 DEF TickStep

LEMMA TickStepPass ==
    ASSUME PassInv, TickStep, UNCHANGED acceptorVars
    PROVE  PassInv'
<1>1. ~ticking' => batch' = <<>>
  BY DEF TickStep, BeginTick, AddSession, MarkWantUpdates, RemoveSession, HandleTeamSwitch,
         HandleSpawn, IgnoreCommand, EmitSnapshots, Take, PassInv
<1>. QED  BY <1>1 DEF PassInv, Clients, acceptorVars, connVars

----------------------------------------------------------------------------
(* The tables of the two threads agree whenever neither is in mid-step: the *)
(* invariant SessionInv, which ties the commands pending in the queue and   *)
(* in the running tick to the connection states and to the bridge's tables. *)
THEOREM SessionsConsistent == Spec => []SessionInv
<1>1. Init => SessionInv
  <2>. SUFFICES ASSUME Init PROVE SessionInv
    OBVIOUS
  <2>1. PassInv
    BY DEF Init, AcceptorInit, BridgeInit, ConnectionInit, PassInv
  <2>2. Pending = <<>>
    BY DEF Init, QueuesInit, BridgeInit, Pending
  <2>3. ASSUME NEW s \in Sid
        PROVE  Consistent(s, <<>>, Absent, {}, {}, 1)
    BY DEF Consistent, NotYet, AnnouncedOnce, Announced, EndAnnounced, Has, PreLogin, Absent
  <2>. QED
    BY <2>1, <2>2, <2>3 DEF SessionInv, Init, AcceptorInit, ConnectionInit, BridgeInit
<1>2. TypeOK /\ SessionInv /\ [Next]_vars => SessionInv'
  <2>. SUFFICES ASSUME TypeOK, SessionInv, [Next]_vars PROVE SessionInv'
    OBVIOUS
  <2>1. CASE IoStep /\ UNCHANGED bridgeVars
    BY <2>1, IoStepSession, IoStepPass DEF SessionInv
  <2>2. CASE TickStep /\ UNCHANGED acceptorVars
    BY <2>2, TickStepSession, TickStepPass DEF SessionInv
  <2>3. CASE UNCHANGED vars
    <3>1. UNCHANGED <<inbound, state, nextSid, batch, joined, wants, ready, dead, pc, ticking>>
      BY <2>3 DEF vars, queueVars, acceptorVars, bridgeVars, connVars
    <3>2. PassInv'
      BY <3>1 DEF SessionInv, PassInv, Clients
    <3>. QED  BY <3>1, <3>2, QuietStep DEF SessionInv
  <2>. QED  BY <2>1, <2>2, <2>3 DEF Next
<1>. QED  BY <1>1, <1>2, TypeCorrect, PTL DEF Spec

(* A session's Disconnected is its last command and is pushed once the      *)
(* session is no longer served, so no command handled later by              *)
(* ProcessMvpBridge can bring a removed session back.                       *)
THEOREM DisconnectComesLast == Spec => []DisconnectIsLast
<1>1. TypeOK /\ SessionInv => DisconnectIsLast
  <2>. SUFFICES ASSUME TypeOK, SessionInv, NEW i \in DOMAIN Pending, NEW j \in DOMAIN Pending,
                       Pending[i].kind = "Disconnected", Pending[j].sid = Pending[i].sid
                PROVE  j <= i /\ state[Pending[i].sid] = Absent
    BY DEF DisconnectIsLast
  <2>1. Pending[i].sid \in Sid
    <3>1. Pending \in Seq(Command)
      BY NothingPushed
    <3>2. Pending[i] \in Command
      BY <3>1
    <3>. QED  BY <3>2 DEF Command
  <2>. QED  BY <2>1 DEF SessionInv, Consistent, EndAnnounced, IsCmd
<1>. QED  BY <1>1, TypeCorrect, SessionsConsistent, PTL

(* A session that ReapClients erased and sessions_ still holds is on its    *)
(* way out: its Disconnected is queued or in the running tick's batch.      *)
THEOREM NoSessionIsForgotten == Spec => []NoGhostSessions
<1>1. TypeOK /\ SessionInv => NoGhostSessions
  BY DEF SessionInv, Consistent, EndAnnounced, NoGhostSessions, TypeOK, BridgeTypeOK
<1>. QED  BY <1>1, TypeCorrect, SessionsConsistent, PTL

(* A login is in sessions_ or announced by exactly one pending command,     *)
(* and a client in the game is watching or has asked to be, in every        *)
(* interleaving of the login, the tick and the reaper.                      *)
THEOREM LoginIsAnnounced == Spec => []LoggedInIsAnnounced
<1>1. TypeOK /\ SessionInv => LoggedInIsAnnounced
  BY DEF SessionInv, Consistent, Announced, AnnouncedOnce, LoggedInIsAnnounced, Has, IsCmd
<1>. QED  BY <1>1, TypeCorrect, SessionsConsistent, PTL

----------------------------------------------------------------------------
(* What a pass of Acceptor::Run owes to the clients that are at their end. *)
(* A connection that closed is on the list of the dead, which is empty     *)
(* until the reads begin; a peer that hung up is read, or dead, in each    *)
(* pass that polls it, and whoever is being drained has not hung up.       *)
PassTells ==
    /\ hungup \subseteq Clients
    /\ \A s \in Sid : state[s] = "Closed" => s \in dead
    /\ dead # {} => pc \in {"recv", "frames", "reap"}
    /\ pc # "reap" => hungup \cap Polled \subseteq ready \cup dead
    /\ pc = "frames" => \A s \in hungup : ~Current(s)

(* A step within the pass that opens and erases no client. *)
LEMMA PassGoesOn ==
    ASSUME PassTells, Clients' = Clients, hungup' = hungup, pc # "reap",
           dead \subseteq dead', ready \cap hungup \subseteq ready' \cup dead',
           \A s \in Sid : state'[s] = "Closed" => state[s] = "Closed" \/ s \in dead',
           dead' # {} => pc' \in {"recv", "frames", "reap"},
           pc' = "frames" => \A s \in hungup : ~Current(s)'
    PROVE  PassTells'
<1>1. Polled' = Polled
  BY DEF Polled
<1>. QED  BY <1>1 DEF PassTells

(* A connection that takes a step is still a client. *)
LEMMA StaysClient ==
    ASSUME TypeOK, NEW s \in Sid, state[s] # Absent, NEW st \in ConnState,
           state' = [state EXCEPT ![s] = st]
    PROVE  /\ Clients' = Clients
           /\ \A r \in Sid : state'[r] = "Closed" => state[r] = "Closed" \/ (r = s /\ st = "Closed")
BY DEF TypeOK, AcceptorTypeOK, ConnectionTypeOK, ConnState, Absent, Clients

(* A new client comes after all others in the read set. *)
LEMMA AcceptPass ==
    ASSUME TypeOK, SessionInv, PassTells, AcceptNewConnection
    PROVE  PassTells'
<1>1. /\ nextSid \in Sid /\ dead = {} /\ dead' = {} /\ ready' = ready /\ hungup' = hungup
      /\ pc # "reap" /\ pc' = "udp" /\ state' = [state EXCEPT ![nextSid] = "AwaitingKeyEcho"]
  BY QueuesAssumption DEF AcceptNewConnection, TypeOK, AcceptorTypeOK, Sid, PassTells
<1>2. \A s \in Clients : s < nextSid
  BY DEF Clients, SessionInv, Consistent, NotYet, TypeOK, AcceptorTypeOK, Sid
<1>3. Clients' = Clients \cup {nextSid}
  BY <1>1 DEF Clients, TypeOK, AcceptorTypeOK, ConnectionTypeOK, Absent
<1>4. \A s \in Sid : state'[s] = "Closed" => state[s] = "Closed"
  BY <1>1 DEF TypeOK, AcceptorTypeOK, ConnectionTypeOK
<1>5. hungup \cap Polled' \subseteq Polled
  <2>. SUFFICES ASSUME NEW s \in hungup, s \in Polled' PROVE s \in Polled
    OBVIOUS
  <2>1. s \in Clients /\ s < nextSid
    BY <1>2 DEF PassTells
  <2>2. {c \in Clients' : c <= s} = {c \in Clients : c <= s}
    BY <1>2, <1>3, <2>1 DEF TypeOK, AcceptorTypeOK, Clients, Sid
  <2>. QED  BY <2>1, <2>2 DEF Polled
<1>. QED  BY <1>1, <1>3, <1>4, <1>5 DEF PassTells

LEMMA IoStepPassTells ==
    ASSUME TypeOK, SessionInv, PassTells, IoStep
    PROVE  PassTells'
<1>0. /\ ready \subseteq Clients /\ dead \subseteq Clients
      /\ pc = "reap" => ready = {}
  BY DEF SessionInv, PassInv
<1>1. CASE Select
  <2>1. Clients' = Clients /\ Polled' = Polled /\ state' = state /\ dead' = {} /\ pc' = "accept"
    BY <1>1 DEF Select, connVars, Clients, Polled
  <2>2. hungup' \subseteq Clients /\ hungup' \cap Polled \subseteq ready'
    BY <1>1 DEF Select, PassTells
  <2>. QED  BY <1>1, <2>1, <2>2 DEF PassTells, Select
<1>2. CASE AcceptNewConnection
  BY <1>2, AcceptPass
<1>3. CASE NoDatagram
  BY <1>3, PassGoesOn DEF NoDatagram, PumpUdp, connVars, Clients, PassTells
<1>4. CASE FlushOutboundMessages
  BY <1>4, PassGoesOn DEF FlushOutboundMessages, connVars, Clients, PassTells
<1>5. ASSUME NEW s \in Sid PROVE
        \/ RecvClosed(s) \/ RecvData(s) \/ EndDrain(s)
        \/ HandleFrame(s) \/ DropClient(s) \/ ReapClient(s)
        \/ \E e \in Endpoint : LinkUdp(s, e) \/ UdpActionInput(s, e)
        \/ \E e \in Endpoint, t \in Requests : UdpReincarnate(s, e, t)
        => PassTells'
  <2>1. CASE RecvClosed(s)
    BY <2>1, PassGoesOn DEF RecvClosed, connVars, Clients, PassTells
  <2>2. CASE RecvData(s)
    <3>1. \A r \in hungup : ~Current(r)'
      <4>. SUFFICES ASSUME NEW r \in hungup, Current(r)' PROVE FALSE
        OBVIOUS
      <4>1. /\ s \in ready /\ r \in ready /\ s <= r /\ r <= s
            /\ s \notin hungup
        BY <2>2 DEF RecvData, Current, IsFirst
      <4>2. r \in Nat /\ s \in Nat
        BY <1>0, <4>1 DEF Clients, Sid
      <4>. QED  BY <4>1, <4>2
    <3>. QED  BY <2>2, <3>1, PassGoesOn DEF RecvData, connVars, Clients, PassTells
  <2>3. CASE EndDrain(s)
    <3>1. s \notin hungup
      BY <2>3 DEF EndDrain, PassTells
    <3>. QED  BY <2>3, <3>1, PassGoesOn DEF EndDrain, connVars, Clients, PassTells
  <2>4. CASE HandleFrame(s)
    <3>1. /\ pc = "frames" /\ pc' = "frames" /\ state[s] # Absent
          /\ UNCHANGED <<ready, dead, hungup>>
      BY <1>0, <2>4 DEF HandleFrame, Current, IsFirst, Clients
    <3>2. \/ state' = state
          \/ \E st \in ConnState \ {"Closed"} : state' = [state EXCEPT ![s] = st]
      BY <2>4 DEF HandleFrame, HandleLoginUsername, EnterGame, QueueReincarnate,
           IgnoreFrame, CompleteLoginWithPassword, connVars, ConnState
    <3>3. Clients' = Clients /\ \A r \in Sid : state'[r] = "Closed" => state[r] = "Closed"
      BY <3>1, <3>2, StaysClient DEF Clients
    <3>4. \A r \in hungup : ~Current(r)'
      BY <3>1 DEF Current, IsFirst, PassTells
    <3>. QED  BY <3>1, <3>3, <3>4, PassGoesOn
  <2>5. CASE DropClient(s)
    <3>1. state[s] # Absent /\ "Closed" \in ConnState
      BY <1>0, <2>5 DEF DropClient, Current, IsFirst, Clients, ConnState
    <3>2. state' = [state EXCEPT ![s] = "Closed"]
      BY <2>5 DEF DropClient, CloseConnection
    <3>. QED  BY <2>5, <3>1, <3>2, StaysClient, PassGoesOn DEF DropClient
  <2>6. CASE ReapClient(s)
    <3>1. /\ pc = "reap" /\ pc' = "reap" /\ dead' = dead \ {s} /\ hungup' = hungup \ {s}
          /\ state' = [state EXCEPT ![s] = Absent]
      BY <2>6 DEF ReapClient
    <3>2. state'[s] = Absent /\ \A r \in Sid : r # s => state'[r] = state[r]
      BY <3>1 DEF TypeOK, AcceptorTypeOK, ConnectionTypeOK
    <3>. QED  BY <3>1, <3>2 DEF PassTells, Clients, Absent
  <2>7. ASSUME NEW e \in Endpoint, LinkUdp(s, e) PROVE PassTells'
    <3>1. state[s] # Absent /\ "AwaitingUsername" \in ConnState
      BY <2>7 DEF LinkUdp, LinkUdpAndIdentify, Absent, ConnState
    <3>2. state' = [state EXCEPT ![s] = "AwaitingUsername"]
      BY <2>7 DEF LinkUdp, LinkUdpAndIdentify
    <3>. QED  BY <2>7, <3>1, <3>2, StaysClient, PassGoesOn DEF LinkUdp, PumpUdp, PassTells
  <2>8. ASSUME NEW e \in Endpoint, UdpActionInput(s, e) PROVE PassTells'
    BY <2>8, PassGoesOn DEF UdpActionInput, PumpUdp, HandleUdpActionInput, connVars, Clients,
                            PassTells
  <2>9. ASSUME NEW e \in Endpoint, NEW t \in Requests, UdpReincarnate(s, e, t) PROVE PassTells'
    BY <2>9, PassGoesOn DEF UdpReincarnate, PumpUdp, QueueReincarnate, connVars, Clients,
                            PassTells
  <2>. QED  BY <2>1, <2>2, <2>3, <2>4, <2>5, <2>6, <2>7, <2>8, <2>9
<1>. QED  BY <1>1, <1>2, <1>3, <1>4, <1>5 DEF IoStep

(* The list of the dead and the read set of a pass are what PassTells says. *)
THEOREM PassConsistent == Spec => []PassTells
<1>1. Init => PassTells
  BY DEF Init, AcceptorInit, ConnectionInit, PassTells, Absent
<1>2. TypeOK /\ SessionInv /\ PassTells /\ [Next]_vars => PassTells'
  <2>. SUFFICES ASSUME TypeOK, SessionInv, PassTells, UNCHANGED acceptorVars
                PROVE  PassTells'
    BY IoStepPassTells DEF Next, vars
  <2>. QED  BY DEF acceptorVars, connVars, PassTells, Clients, Polled, Current
<1>. QED  BY <1>1, <1>2, TypeCorrect, SessionsConsistent, PTL DEF Spec

(* The safety of ClosedLeaves: a connection that the protocol closed is on *)
(* the list that ReapClients works off at the end of the same pass; no     *)
(* pass begins while one is left (PumpTcpClient, ReapClients).             *)
ClosedGoInTheirPass ==
    \A s \in Sid : state[s] = "Closed" => s \in dead /\ pc \in {"recv", "frames", "reap"}

(* Nobody who broke the protocol is forgotten. *)
THEOREM ClosedAreReaped == Spec => []ClosedGoInTheirPass
<1>. PassTells => ClosedGoInTheirPass
  BY DEF PassTells, ClosedGoInTheirPass
<1>. QED  BY PassConsistent, PTL

(* The safety of HungUpLeaves: by the end of the reads of a pass, each peer *)
(* that had hung up when select was called is on the list of the dead, if  *)
(* the read set had room for it (BuildReadSet, PumpReadableSockets).       *)
HungUpGoInTheirPass == [][FlushOutboundMessages => hungup \cap Polled \subseteq dead']_vars

(* Nobody who hung up and is polled is forgotten. *)
THEOREM HungUpAreReaped == Spec => HungUpGoInTheirPass
<1>1. PassTells => [FlushOutboundMessages => hungup \cap Polled \subseteq dead']_vars
  BY DEF PassTells, FlushOutboundMessages
<1>. QED  BY <1>1, PassConsistent, PTL DEF HungUpGoInTheirPass
=============================================================================
