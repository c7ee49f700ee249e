------------------------------- MODULE Geocoding -------------------------------
(***************************************************************************)
(* Place lookups, read through a cache of their own: a search answers a    *)
(* list, resolving an id and reverse geocoding answer one place or none.   *)
(* One key of each operation is modelled.                                  *)
(***************************************************************************)
EXTENDS Requests

CONSTANTS
  Locations,     \* what the provider may answer
  Shapeless,     \* locations its adapter drops
  Unacceptable,  \* locations validatePlace refuses
  MaxLocations,  \* 50
  LookupCacheTtl \* geocoding.cacheTtlSeconds

ASSUME LookupAssumption == {MaxLocations, LookupCacheTtl} \subseteq Nat

Operations == {"search", "resolve", "reverse"}
NoLookup == [places |-> {}, goodUntil |-> 0]

VARIABLE
  lookups \* the cached answer of each operation

geocodingVars == <<lookups, environment>>

GeocodingInit ==
  /\ EnvironmentInit
  /\ lookups = [o \in Operations |-> NoLookup]

LookupHit(o) ==
  /\ now < lookups[o].goodUntil
  /\ Single
  /\ UNCHANGED lookups

\* No entry, or an error of the cache.
LookupMiss(h, o) ==
  /\ Begin(h, "call-geocoder", o)
  /\ UNCHANGED lookups

\* An error or a timeout, which aborts the call, or nothing found: no list
\* is an error, but one place has to be there.  Mapbox resolves no ids.
GeocoderFails(h) ==
  /\ at[h] = "call-geocoder"
  /\ Finish(h)
  /\ UNCHANGED lookups

ValidPlaces(o, places) ==
  /\ places \cap Unacceptable = {}
  /\ IF o = "search" THEN Cardinality(places) <= MaxLocations ELSE Cardinality(places) = 1

GeocoderAnswers(h, answer) ==
  LET places == answer \ Shapeless IN
  /\ at[h] = "call-geocoder"
  /\ ValidPlaces(mem[h], places)
  /\ Proceed(h, "store-lookup", [operation |-> mem[h], places |-> places])
  /\ UNCHANGED lookups

StoreLookup(h) ==
  /\ at[h] = "store-lookup"
  /\ lookups' = [lookups EXCEPT ![mem[h].operation] =
                   [places |-> mem[h].places, goodUntil |-> now + LookupCacheTtl]]
  /\ Finish(h)

\* An error of the cache is logged; the answer is given all the same.
StoreFails(h) ==
  /\ at[h] = "store-lookup"
  /\ Finish(h)
  /\ UNCHANGED lookups

GeocodingTick == PassTime /\ UNCHANGED lookups

GeocodingNext ==
  \/ \E h \in Handlers :
       \/ GeocoderFails(h) \/ StoreLookup(h) \/ StoreFails(h)
       \/ \E o \in Operations : LookupMiss(h, o)
       \/ \E answer \in SUBSET Locations : GeocoderAnswers(h, answer)
  \/ \E o \in Operations : LookupHit(o)
  \/ GeocodingTick

GeocodingSpec == GeocodingInit /\ [][GeocodingNext]_geocodingVars

-----------------------------------------------------------------------------
GeocodingTypeOK ==
  lookups \in [Operations -> [places : SUBSET (Locations \ Shapeless), goodUntil : Nat]]

(* Cached lookups are usable: a list keeps to its limit, a place is there, *)
(* and none is one that validatePlace refuses.                             *)
LookupsUsable ==
  \A o \in Operations : lookups[o] # NoLookup =>
    /\ lookups[o].places \cap Unacceptable = {}
    /\ IF o = "search" THEN Cardinality(lookups[o].places) <= MaxLocations
       ELSE lookups[o].places # {}
=============================================================================
