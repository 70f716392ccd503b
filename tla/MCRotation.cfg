CONSTANTS
    Listed <- MCListed
    Providers <- MCProviders
    ProviderOf <- MCProviderOf
    Reach <- MCReach
    Orders <- MCOrders
    MaxSticky = 2
    Editors = {e1}
    MaxEdits = 2
    MaxTests = 1
SPECIFICATION RotationSpec
PROPERTIES
    TurnsInOrder
    
