------------------------------ MODULE JoinState -----------------------------
(***************************************************************************)
(* The state of module Join and the safety properties it has to keep, for  *)
(* Join, which adds the steps, and for the theorems in KeysProofs.         *)
(***************************************************************************)

VARIABLES
  state,             \* enum r92su_state_t (R92SU_PROBE, R92SU_INIT not seen)
  iftype,            \* wdev.iftype
  link,              \* "up" while IFF_UP is set
  user,              \* where the RTNL holder is
  worker,            \* where the work queue's thread is
  queue,             \* FIFO of queued works; a pending work is in it once
  irq,               \* where the receive handler is
  want_connect_bss,  \* the network a join command was sent for
  connect_bss,       \* the network we are connected to
  connect_result,    \* the copy of the firmware's join event
  assoc_ie,          \* bss_priv->assoc_ie
  group_key,         \* bss_priv->group_key[]: one slot stands for the four
  sta,               \* the station with id BSS_MACID
  sme,               \* external: cfg80211's view of the connection
  fw_join,           \* external: "busy" while the firmware joins
  retried            \* history: the user asked again during a join

\* r92su_bss_free_connected calls cfg80211_disconnected.
reports_disconnect == connect_bss = "bss" /\ iftype = "station"

\* R92SU_CONNECTED promises a network to the data path, and for a station
\* the peer's entry in the station table; and a network is published only
\* while connected (or until a dead device is closed).  Set by the connect
\* work, undone by the user, the disconnect work and r92su_stop.  A join
\* asked for during another one may end in r92su_bss_free (main.c:830) of
\* the network the first one has connected: the entry is then gone.
ConnectedHasBss ==
  /\ state = "connected" /\ iftype # "monitor" => connect_bss = "bss"
  /\ state = "connected" /\ iftype = "station" /\ ~retried => sta = "valid"
  /\ connect_bss = "bss" => state \in {"connected", "dead", "unload"}

\* main.c:592 "cfg80211 doesn't like it when cfg80211_disconnected is called
\* without reason": whoever finds connect_bss set on a station, and so will
\* report a disconnect, does it to a cfg80211 that knows of the connection.
\* The code keeps it unless the user asks again during a join: r92su_connect
\* (main.c:499) then sends a second join, which may fail after the first one
\* has succeeded, and cfg80211 takes the failure for the answer.
DisconnectHasReason == reports_disconnect /\ ~retried => sme = "connected"
=============================================================================
