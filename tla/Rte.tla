--------------------------------- MODULE Rte ----------------------------------
(***************************************************************************)
(* The round-trip efficiency window: one sample per poll, covering the time    *)
(* since the poll before, pruned to a day, written to its file in place after  *)
(* every poll and loaded again at the start.                                  *)
(*                                                                          *)
(* `now` is the monotonic clock, which outlives the process here; the wall     *)
(* clock is `offset` ahead of it.  A sample's energy is the time it covers.    *)
(***************************************************************************)
EXTENDS Integers, Sequences

CONSTANTS
  None, Torn,
  Window,
  MaxNow, MaxSteps, MaxCrashes      \* what is explored

VARIABLES
  now, offset, steps,
  up,               \* "running", "saving" from the truncation to the last byte, "down"
  started,          \* when it last came up
  samples, last,    \* the tracker's: each covers (from, at] and was made at `unix`
  file,             \* None, Torn, or what was saved
  stepped,          \* when the wall clock was set: while "running", while "down"
  crashes

vars == <<now, offset, steps, up, started, samples, last, file, stepped, crashes>>

Wall == now + offset

TypeOK ==
  /\ now \in 0 .. MaxNow /\ started \in 0 .. now
  /\ offset \in -2 * MaxSteps .. 2 * MaxSteps /\ steps \in 0 .. MaxSteps
  /\ up \in {"running", "saving", "down"}
  /\ samples \in Seq([from : Int, at : Int, unix : Int]) /\ Len(samples) <= MaxNow
  /\ last \in {None} \cup [at : Int, unix : Int]
  /\ file \in {None, Torn} \/ DOMAIN file = {"samples", "last"}
  /\ up = "saving" => file = Torn
  /\ stepped \subseteq {"running", "down"} /\ crashes \in 0 .. MaxCrashes

Init ==
  /\ now = 0 /\ offset = 0 /\ steps = 0
  /\ up = "running" /\ started = 0 /\ samples = <<>> /\ last = None
  /\ file = None /\ stepped = {} /\ crashes = 0

-----------------------------------------------------------------------------

\* Mutant: the oldest sample is looked at once.
PrunedOnce(s, cutoff) == IF s # <<>> /\ Head(s).at < cutoff THEN Tail(s) ELSE s

\* `prune`: from the front, up to the first that is not too old.
Pruned(s, cutoff) ==
  LET kept == {i \in 1 .. Len(s) + 1 : \A j \in 1 .. i - 1 : s[j].at < cutoff}
      first == CHOOSE i \in kept : i \notin 1 .. Len(s) \/ s[i].at >= cutoff
  IN SubSeq(s, first, Len(s))

Covering(from) == Append(samples, [from |-> from, at |-> now, unix |-> Wall])

\* A poll: `record`, then `save` up to where the file is empty, if it can be written.
Polls ==
  /\ up = "running" /\ now > started
  /\ last # None => now > last.at
  /\ samples' = Pruned(IF last = None THEN samples ELSE Covering(last.at), now - Window)
  /\ last' = [at |-> now, unix |-> Wall]
  /\ \/ file' = Torn /\ up' = "saving"
     \/ UNCHANGED <<file, up>>
  /\ UNCHANGED <<now, offset, steps, started, stepped, crashes>>

Saved == [samples |-> samples, last |-> last]

\* The rest of the write; a full disk leaves what fits.
Saves ==
  /\ up = "saving"
  /\ file' \in {Saved, Torn} /\ up' = "running"
  /\ UNCHANGED <<now, offset, steps, started, samples, last, stepped, crashes>>

Stops ==
  /\ up = "running"
  /\ up' = "down"
  /\ UNCHANGED <<now, offset, steps, started, samples, last, file, stepped, crashes>>

\* Killed, or the power goes.
Crashes ==
  /\ up # "down" /\ crashes < MaxCrashes
  /\ crashes' = crashes + 1 /\ up' = "down"
  /\ UNCHANGED <<now, offset, steps, started, samples, last, file, stepped>>

Readable == file \notin {None, Torn}
Age(unix) == Wall - unix

\* Mutant: the last poll before the restart is taken for one at the restart.
LastNow(l) == [l EXCEPT !.at = now]
\* Back by its age.
LastThen(l) == [l EXCEPT !.at = now - Age(l.unix)]

\* What is put back of the first i samples, each back by its age.
Restored(s) ==
  LET Shifted(x) == [from |-> x.from + (now - Age(x.unix)) - x.at, at |-> now - Age(x.unix),
                     unix |-> x.unix]
      read[i \in 0 .. Len(s)] ==
        IF i = 0 THEN <<>>
        ELSE IF Age(s[i].unix) \in 0 .. Window THEN Append(read[i - 1], Shifted(s[i]))
        ELSE read[i - 1]
  IN read[Len(s)]

\* `load`: what its age by the wall clock leaves inside the window.
Starts ==
  /\ up = "down"
  /\ up' = "running" /\ started' = now
  /\ samples' = IF Readable THEN Restored(file.samples) ELSE <<>>
  /\ last' = IF Readable /\ file.last # None /\ Age(file.last.unix) \in 0 .. Window - 1
             THEN LastThen(file.last) ELSE None
  /\ UNCHANGED <<now, offset, steps, file, stepped, crashes>>

Passes ==
  /\ now < MaxNow /\ up # "saving"
  /\ now' = now + 1
  /\ UNCHANGED <<offset, steps, up, started, samples, last, file, stepped, crashes>>

\* The wall clock is set.
StepsClock ==
  /\ steps < MaxSteps
  /\ steps' = steps + 1
  /\ \E by \in {-2, 2} : offset' = offset + by
  /\ stepped' = stepped \cup {IF up = "down" THEN "down" ELSE "running"}
  /\ UNCHANGED <<now, up, started, samples, last, file, crashes>>

-----------------------------------------------------------------------------

Next == Polls \/ Saves \/ Stops \/ Crashes \/ Starts \/ Passes \/ StepsClock

Spec == Init /\ [][Next]_vars

-----------------------------------------------------------------------------
(* Properties.                                                               *)

\* No moment is counted twice, over restarts and crashes, the clock set while the
\* process was down included; and none is left out unless it was set: what a
\* crash loses of the samples the next one covers.
CountedOnce ==
  "running" \notin stepped =>
    /\ \A i \in DOMAIN samples : i > 1 =>
         IF stepped = {} THEN samples[i].from = samples[i - 1].at
                         ELSE samples[i].from >= samples[i - 1].at
    /\ samples # <<>> /\ last # None =>
         IF stepped = {} THEN samples[Len(samples)].at = last.at
                         ELSE samples[Len(samples)].at <= last.at

\* A poll leaves no sample older than the window, those a restart put back among
\* them, unless the clock was set while the process ran and the order with it.
WithinWindow ==
  [][up = "running" /\ last' # last /\ "running" \notin stepped
       => \A i \in DOMAIN samples' : samples'[i].at >= now - Window]_vars

\* The rolling window counts each moment of its span once.
WindowKept == [](TypeOK /\ CountedOnce) /\ WithinWindow
=============================================================================
