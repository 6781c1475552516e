------------------------------- MODULE Oracle -------------------------------
(***************************************************************************)
(* OracleBook of src/oracle: for each asset a feed of prices, each in      *)
(* force from an epoch on, and a band that limits what may be published.   *)
(* Publishers answer late and out of order; the age of a price is tested   *)
(* when it is published, and never again.                                  *)
(***************************************************************************)
EXTENDS EpochClock, Amounts, InOrder

CONSTANTS
    Symbols,           \* assets with a feed
    \* inputs and bound of a run
    Prices, Bands, PriceEpochs, MaxPublications

\* EpochPrice::new and PriceBand::new; the staleness of a band is 3 unless the
\* caller sets another.
ASSUME OracleAssumption ==
    /\ Prices \subseteq Nat \ {0}
    /\ Bands \subseteq [lower : Nat \ {0}, upper : Nat, staleness : Nat]
    /\ \A band \in Bands : band.lower <= band.upper
    /\ PriceEpochs \subseteq Nat
    /\ MaxPublications \in Nat

VARIABLES
    feeds,      \* OracleBook::prices, ordered by epoch
    bands,      \* OracleBook::bands
    published   \* history: every publication, in the order of arrival

oracleVars == <<feeds, bands, published>>

\* An asset without a band (no band has a lower limit of zero).
NoBand == [lower |-> 0, upper |-> 0, staleness |-> 0]

OracleInit ==
    /\ feeds = [s \in Symbols |-> << >>]
    /\ bands = [s \in Symbols |-> NoBand]
    /\ published = << >>

\* Mutant: an old price is as good as a fresh one.
BandAccepts_old(band, price, e) == price \in band.lower .. band.upper

\* PriceBand::accepts.  The distance saturates: a price of a later epoch has
\* the age zero.
BandAccepts(band, price, e) ==
    /\ price \in band.lower .. band.upper
    /\ SaturatingSub(current_epoch, e) <= band.staleness

\* Mutant: the newcomer goes before the prices of its epoch.
Sorted_first(feed, entry) ==
    InsertBefore(feed, {i \in DOMAIN feed : feed[i].epoch >= entry.epoch}, entry)

\* A push on an ordered feed, followed by the stable sort by epoch.
Sorted(feed, entry) ==
    InsertBefore(feed, {i \in DOMAIN feed : feed[i].epoch > entry.epoch}, entry)

SetBand(s, band) ==
    /\ Idle
    /\ bands' = [bands EXCEPT ![s] = band]
    /\ UNCHANGED <<feeds, published>>

Publish(s, price, e) ==
    /\ Idle /\ Len(published) < MaxPublications
    /\ bands[s] = NoBand \/ BandAccepts(bands[s], price, e)
    /\ feeds' = [feeds EXCEPT ![s] = Sorted(@, [epoch |-> e, price |-> price])]
    /\ published' = Append(published, [symbol |-> s, epoch |-> e, price |-> price])
    /\ UNCHANGED bands

OracleNext ==
    \/ \E s \in Symbols, band \in Bands : SetBand(s, band)
    \/ \E s \in Symbols, price \in Prices, e \in PriceEpochs : Publish(s, price, e)

---------------------------------------------------------------------------
\* Reading a feed

\* The positions of the prices that are in force at epoch e or were before.
UpTo(s, e) == {i \in DOMAIN feeds[s] : feeds[s][i].epoch <= e}
HasPrice(s, e) == UpTo(s, e) # {}

\* OracleBook::at_or_before: the search runs backwards over the feed.
AtOrBefore(s, e) ==
    feeds[s][CHOOSE i \in UpTo(s, e) : \A j \in UpTo(s, e) : j <= i].price

\* OracleBook::latest does not look at the clock.
Latest(s) == feeds[s][Len(feeds[s])].price

---------------------------------------------------------------------------
\* Properties

\* A publication that arrives for an epoch e is superseded by one for a later
\* epoch, and by one for the same epoch that arrives later.
Supersedes(i, j) ==
    \/ published[i].epoch > published[j].epoch
    \/ published[i].epoch = published[j].epoch /\ i > j
InForce(s, e) ==
    {i \in DOMAIN published : published[i].symbol = s /\ published[i].epoch <= e}

\* However late and out of order prices arrive, the price of an epoch is the
\* one published for the latest epoch up to it, a correction before what it
\* corrects; and `latest` is that price unless one for the future is in.
LastPublicationWins ==
    \A s \in Symbols, e \in PriceEpochs :
        /\ HasPrice(s, e) <=> InForce(s, e) # {}
        /\ \A i \in InForce(s, e) :
             (\A j \in InForce(s, e) : j = i \/ Supersedes(i, j)) =>
                /\ AtOrBefore(s, e) = published[i].price
                /\ (\A q \in DOMAIN published :
                       published[q].symbol = s => published[q].epoch <= e)
                     => Latest(s) = AtOrBefore(s, e)

\* The price of an epoch is final while the asset has a band that admits no
\* publication for so old an epoch: no late one rewrites what a settlement of
\* that epoch has used, whatever other epochs prices still arrive for.
QuotesSettle ==
    [][\A s \in Symbols, e \in PriceEpochs :
          bands[s] # NoBand /\ HasPrice(s, e) /\ e + bands[s].staleness < current_epoch =>
             AtOrBefore(s, e)' = AtOrBefore(s, e)]_oracleVars
=============================================================================
